---- MODULE Spec2Model ----
(***************************************************************************)
(* Turn orchestration and combat resolution of the AI D&D Arena            *)
(* (src/app.py) and of the earlier AI RPG Auto-Battler (src/Dm App).  Text *)
(* is modelled as tuples of one-character strings so that lower-casing and *)
(* Python's substring test are computed, and a narration is modelled by    *)
(* the matches the source's regular expressions return on it.              *)
(***************************************************************************)
EXTENDS Integers, Sequences, FiniteSets, TLC

VARIABLES
    initialized,        \* st.session_state.initialized
    agents,             \* st.session_state.agents (list of Agent)
    game_log,           \* st.session_state.game_log (transcript)
    turn_idx,           \* st.session_state.turn_idx
    monsters,           \* st.session_state.monsters (insertion-ordered dict)
    auto_play,          \* st.session_state.auto_play
    waiting_for_human,  \* st.session_state.waiting_for_human
    human_agent_idx,    \* st.session_state.human_agent_idx
    webhook_url,        \* sidebar text input: TRUE iff a non-empty URL is set
    pc,                 \* position of the script thread
    safety,             \* run_ai_chain's loop counter
    inv,                \* history: the orchestration invocation under way
    last,               \* history: the last event and the text it carried
    party,              \* Auto-Battler: st.session_state["party"]
    history,            \* Auto-Battler: st.session_state["history"]
    turn_index,         \* Auto-Battler: st.session_state["turn_index"]
    game_active,        \* Auto-Battler: st.session_state["game_active"]
    probe               \* a function of the source under call: arguments, result

\* Session state the Arena alone uses, and the Auto-Battler alone
\* (auto_play and webhook_url are keys of both programs).
arenaVars == <<initialized, agents, game_log, turn_idx, monsters,
               waiting_for_human, human_agent_idx, safety, inv>>

oldVars == <<party, history, turn_index, game_active>>

vars == <<initialized, agents, game_log, turn_idx, monsters, auto_play,
          waiting_for_human, human_agent_idx, webhook_url, pc, safety, inv, last,
          party, history, turn_index, game_active, probe>>

\* ------------------------------------------------------------------ bounds

\* Turns resolved per encounter before the model stops starting new ones.
MaxTurns == 4

\* The same for the Auto-Battler's run_turn.
OldMaxTurns == 4

\* Entries of the Auto-Battler's history before run_turn stops being called
\* (one call appends at most two).
OldMaxHistory == 6

\* Hit points and damage amounts take_damage is called with.
MaxProbeHp == 3

MaxProbeAmount == 5

\* ------------------------------------------------------------------- text

UpperChars == <<"A","B","C","D","E","F","G","H","I","J","K","L","M",
                "N","O","P","Q","R","S","T","U","V","W","X","Y","Z">>

LowerChars == <<"a","b","c","d","e","f","g","h","i","j","k","l","m",
                "n","o","p","q","r","s","t","u","v","w","x","y","z">>

DigitChars == <<"0","1","2","3","4","5","6","7","8","9">>

LowerChar(c) ==
    IF \E i \in 1..26 : UpperChars[i] = c
    THEN LowerChars[CHOOSE i \in 1..26 : UpperChars[i] = c]
    ELSE c

\* str.lower()
Lower(s) == [i \in 1..Len(s) |-> LowerChar(s[i])]

\* Python's `needle in hay` on strings
Contains(hay, needle) ==
    \E i \in 0..(Len(hay) - Len(needle)) :
        SubSeq(hay, i + 1, i + Len(needle)) = needle

IsDigit(c) == \E i \in 1..10 : DigitChars[i] = c

DigitVal(c) == (CHOOSE i \in 1..10 : DigitChars[i] = c) - 1

\* str.isdigit()
IsDigits(s) == Len(s) > 0 /\ \A i \in 1..Len(s) : IsDigit(s[i])

RECURSIVE StrToInt(_)
\* int(s) for a string of decimal digits
StrToInt(s) ==
    IF Len(s) = 0 THEN 0
    ELSE 10 * StrToInt(SubSeq(s, 1, Len(s) - 1)) + DigitVal(s[Len(s)])

RECURSIVE IntToStr(_)
\* str(n) for n >= 0
IntToStr(n) ==
    IF n < 10 THEN <<DigitChars[n + 1]>>
    ELSE IntToStr(n \div 10) \o <<DigitChars[(n % 10) + 1]>>

\* str.strip() (blanks only)
RECURSIVE Strip(_)
Strip(s) ==
    IF Len(s) > 0 /\ s[1] = " " THEN Strip(Tail(s))
    ELSE IF Len(s) > 0 /\ s[Len(s)] = " " THEN Strip(SubSeq(s, 1, Len(s) - 1))
    ELSE s

\* Length of the longest run of digits of s that starts at position k.
RECURSIVE DigitRun(_, _)
DigitRun(s, k) ==
    IF k <= Len(s) /\ IsDigit(s[k]) THEN 1 + DigitRun(s, k + 1) ELSE 0

RECURSIVE SumSeq(_)
SumSeq(s) == IF Len(s) = 0 THEN 0 ELSE s[1] + SumSeq(Tail(s))

Max(a, b) == IF a >= b THEN a ELSE b

\* ------------------------------------------------------------ names, data

NDungeonMaster == <<"D","u","n","g","e","o","n"," ","M","a","s","t","e","r">>
NThorin == <<"T","h","o","r","i","n">>
NElara  == <<"E","l","a","r","a">>
NKael   == <<"K","a","e","l">>
NCombat == <<"C","o","m","b","a","t">>
NGoblin == <<"G","o","b","l","i","n">>
NSkeleton == <<"S","k","e","l","e","t","o","n">>
NOrc    == <<"O","r","c">>
NDireWolf == <<"D","i","r","e"," ","W","o","l","f">>
NOgre   == <<"O","g","r","e">>
NZombie == <<"Z","o","m","b","i","e">>
NBandit == <<"B","a","n","d","i","t">>
NTroll  == <<"T","r","o","l","l">>

D1d6  == <<"1","d","6">>
D1d8  == <<"1","d","8">>
D1d10 == <<"1","d","1","0">>
D1d12 == <<"1","d","1","2">>
D2d6  == <<"2","d","6">>
D2d8  == <<"2","d","8">>

\* CLASS_DAMAGE_DICE.get(class_name, ("1d8", 8))[0]
ClassDamageDice(class_name) ==
    CASE class_name = "Barbarian" -> D1d12
      [] class_name \in {"Fighter", "Paladin", "Sorcerer", "Warlock", "Wizard"} -> D1d10
      [] class_name \in {"Monk", "Rogue"} -> D1d6
      [] OTHER -> D1d8

MkTemplate(n, hp, ac, dmg, sm, dm) ==
    [name |-> n, hp |-> hp, max_hp |-> hp, ac |-> ac, damage |-> dmg,
     str_mod |-> sm, dex_mod |-> dm]

\* MONSTER_TEMPLATES, in the dict's order
MONSTER_TEMPLATES ==
    << MkTemplate(NGoblin,   7,  15, D1d6,  -1, 2),
       MkTemplate(NSkeleton, 13, 13, D1d6,  0,  2),
       MkTemplate(NOrc,      15, 13, D1d12, 3,  1),
       MkTemplate(NDireWolf, 26, 14, D2d6,  3,  2),
       MkTemplate(NOgre,     59, 11, D2d8,  4,  -1),
       MkTemplate(NZombie,   22, 8,  D1d6,  1,  -2),
       MkTemplate(NBandit,   11, 12, D1d8,  0,  1),
       MkTemplate(NTroll,    84, 15, D2d6,  4,  1) >>

\* ------------------------------------------------------------ dice engine

\* roll_dice with dice numbered from 0.
roll_dice_from_zero(notation) ==
    LET s  == Strip(notation)
        n1 == DigitRun(s, 1)
        n2 == IF n1 > 0 /\ Len(s) > n1 /\ s[n1 + 1] = "d"
              THEN DigitRun(s, n1 + 2) ELSE 0
    IN  IF n2 = 0
        THEN {[raised |-> FALSE, rolls |-> <<0>>, total |-> 0]}
        ELSE LET count == StrToInt(SubSeq(s, 1, n1))
                 sides == StrToInt(SubSeq(s, n1 + 2, n1 + 1 + n2))
             IN  IF count > 0 /\ sides < 1
                 THEN {[raised |-> TRUE, rolls |-> <<>>, total |-> 0]}
                 ELSE {[raised |-> FALSE, rolls |-> r, total |-> SumSeq(r)] :
                          r \in [1..count -> 0..(sides - 1)]}

\* roll_dice: every (rolls, total) the call can return; raised marks the
\* ValueError of random.randint(1, 0).
roll_dice(notation) ==
    LET s  == Strip(notation)
        n1 == DigitRun(s, 1)
        n2 == IF n1 > 0 /\ Len(s) > n1 /\ s[n1 + 1] = "d"
              THEN DigitRun(s, n1 + 2) ELSE 0
    IN  IF n2 = 0
        THEN {[raised |-> FALSE, rolls |-> <<0>>, total |-> 0]}
        ELSE LET count == StrToInt(SubSeq(s, 1, n1))
                 sides == StrToInt(SubSeq(s, n1 + 2, n1 + 1 + n2))
             IN  IF count > 0 /\ sides < 1
                 THEN {[raised |-> TRUE, rolls |-> <<>>, total |-> 0]}
                 ELSE {[raised |-> FALSE, rolls |-> r, total |-> SumSeq(r)] :
                          r \in [1..count -> 1..sides]}

\* roll_d20
roll_d20 == 1..20

\* get_ability_modifier: (score - 10) // 2
get_ability_modifier(score) == (score - 10) \div 2

\* resolve_attack without the early return of lines 92-96.
resolve_attack_no_fumble(attacker_mod, damage_notation, target_ac) ==
    UNION { LET attack_total == d20 + attacker_mod
                is_crit == (d20 = 20)
                is_miss == (d20 = 1)
                base == [d20 |-> d20, modifier |-> attacker_mod,
                         attack_total |-> attack_total, target_ac |-> target_ac,
                         hit |-> FALSE, crit |-> is_crit, fumble |-> is_miss,
                         damage |-> 0, damage_rolls |-> <<>>,
                         narrative |-> "miss", raised |-> FALSE]
            IN  IF FALSE
                THEN {[base EXCEPT !.narrative = "fumble"]}
                ELSE IF is_crit \/ attack_total >= target_ac
                THEN UNION { IF r1.raised
                             THEN {[base EXCEPT !.hit = TRUE, !.raised = TRUE]}
                             ELSE IF is_crit
                             THEN {[base EXCEPT !.hit = TRUE,
                                        !.raised = r2.raised,
                                        !.damage = r1.total + r2.total,
                                        !.damage_rolls = r1.rolls \o r2.rolls,
                                        !.narrative = "crit"] :
                                      r2 \in roll_dice(damage_notation)}
                             ELSE {[base EXCEPT !.hit = TRUE,
                                        !.damage = r1.total,
                                        !.damage_rolls = r1.rolls,
                                        !.narrative = "hit"]} :
                             r1 \in roll_dice(damage_notation) }
                ELSE {base} :
            d20 \in roll_d20 }

\* resolve_attack with a critical hit that doubles the one rolled total.
resolve_attack_doubling(attacker_mod, damage_notation, target_ac) ==
    UNION { LET attack_total == d20 + attacker_mod
                is_crit == (d20 = 20)
                is_miss == (d20 = 1)
                base == [d20 |-> d20, modifier |-> attacker_mod,
                         attack_total |-> attack_total, target_ac |-> target_ac,
                         hit |-> FALSE, crit |-> is_crit, fumble |-> is_miss,
                         damage |-> 0, damage_rolls |-> <<>>,
                         narrative |-> "miss", raised |-> FALSE]
            IN  IF is_miss
                THEN {[base EXCEPT !.narrative = "fumble"]}
                ELSE IF is_crit \/ attack_total >= target_ac
                THEN UNION { IF r1.raised
                             THEN {[base EXCEPT !.hit = TRUE, !.raised = TRUE]}
                             ELSE IF is_crit
                             THEN {[base EXCEPT !.hit = TRUE,
                                        !.raised = r2.raised,
                                        !.damage = r1.total + r1.total,
                                        !.damage_rolls = r1.rolls \o r1.rolls,
                                        !.narrative = "crit"] :
                                      r2 \in roll_dice(damage_notation)}
                             ELSE {[base EXCEPT !.hit = TRUE,
                                        !.damage = r1.total,
                                        !.damage_rolls = r1.rolls,
                                        !.narrative = "hit"]} :
                             r1 \in roll_dice(damage_notation) }
                ELSE {base} :
            d20 \in roll_d20 }

\* resolve_attack with a critical hit on 19 as well.
resolve_attack_crit_on_19(attacker_mod, damage_notation, target_ac) ==
    UNION { LET attack_total == d20 + attacker_mod
                is_crit == (d20 >= 19)
                is_miss == (d20 = 1)
                base == [d20 |-> d20, modifier |-> attacker_mod,
                         attack_total |-> attack_total, target_ac |-> target_ac,
                         hit |-> FALSE, crit |-> is_crit, fumble |-> is_miss,
                         damage |-> 0, damage_rolls |-> <<>>,
                         narrative |-> "miss", raised |-> FALSE]
            IN  IF is_miss
                THEN {[base EXCEPT !.narrative = "fumble"]}
                ELSE IF is_crit \/ attack_total >= target_ac
                THEN UNION { IF r1.raised
                             THEN {[base EXCEPT !.hit = TRUE, !.raised = TRUE]}
                             ELSE IF is_crit
                             THEN {[base EXCEPT !.hit = TRUE,
                                        !.raised = r2.raised,
                                        !.damage = r1.total + r2.total,
                                        !.damage_rolls = r1.rolls \o r2.rolls,
                                        !.narrative = "crit"] :
                                      r2 \in roll_dice(damage_notation)}
                             ELSE {[base EXCEPT !.hit = TRUE,
                                        !.damage = r1.total,
                                        !.damage_rolls = r1.rolls,
                                        !.narrative = "hit"]} :
                             r1 \in roll_dice(damage_notation) }
                ELSE {base} :
            d20 \in roll_d20 }

\* resolve_attack with a hit only above the armour class.
resolve_attack_above_ac(attacker_mod, damage_notation, target_ac) ==
    UNION { LET attack_total == d20 + attacker_mod
                is_crit == (d20 = 20)
                is_miss == (d20 = 1)
                base == [d20 |-> d20, modifier |-> attacker_mod,
                         attack_total |-> attack_total, target_ac |-> target_ac,
                         hit |-> FALSE, crit |-> is_crit, fumble |-> is_miss,
                         damage |-> 0, damage_rolls |-> <<>>,
                         narrative |-> "miss", raised |-> FALSE]
            IN  IF is_miss
                THEN {[base EXCEPT !.narrative = "fumble"]}
                ELSE IF is_crit \/ attack_total > target_ac
                THEN UNION { IF r1.raised
                             THEN {[base EXCEPT !.hit = TRUE, !.raised = TRUE]}
                             ELSE IF is_crit
                             THEN {[base EXCEPT !.hit = TRUE,
                                        !.raised = r2.raised,
                                        !.damage = r1.total + r2.total,
                                        !.damage_rolls = r1.rolls \o r2.rolls,
                                        !.narrative = "crit"] :
                                      r2 \in roll_dice(damage_notation)}
                             ELSE {[base EXCEPT !.hit = TRUE,
                                        !.damage = r1.total,
                                        !.damage_rolls = r1.rolls,
                                        !.narrative = "hit"]} :
                             r1 \in roll_dice(damage_notation) }
                ELSE {base} :
            d20 \in roll_d20 }

\* resolve_attack: every result dict the call can return (names and the
\* narrative's wording left out; narrative keeps which of the three texts).
resolve_attack(attacker_mod, damage_notation, target_ac) ==
    UNION { LET attack_total == d20 + attacker_mod
                is_crit == (d20 = 20)
                is_miss == (d20 = 1)
                base == [d20 |-> d20, modifier |-> attacker_mod,
                         attack_total |-> attack_total, target_ac |-> target_ac,
                         hit |-> FALSE, crit |-> is_crit, fumble |-> is_miss,
                         damage |-> 0, damage_rolls |-> <<>>,
                         narrative |-> "miss", raised |-> FALSE]
            IN  IF is_miss
                THEN {[base EXCEPT !.narrative = "fumble"]}
                ELSE IF is_crit \/ attack_total >= target_ac
                THEN UNION { IF r1.raised
                             THEN {[base EXCEPT !.hit = TRUE, !.raised = TRUE]}
                             ELSE IF is_crit
                             THEN {[base EXCEPT !.hit = TRUE,
                                        !.raised = r2.raised,
                                        !.damage = r1.total + r2.total,
                                        !.damage_rolls = r1.rolls \o r2.rolls,
                                        !.narrative = "crit"] :
                                      r2 \in roll_dice(damage_notation)}
                             ELSE {[base EXCEPT !.hit = TRUE,
                                        !.damage = r1.total,
                                        !.damage_rolls = r1.rolls,
                                        !.narrative = "hit"]} :
                             r1 \in roll_dice(damage_notation) }
                ELSE {base} :
            d20 \in roll_d20 }

\* ------------------------------------------------- combat intent pass

\* The `combatants` dict of parse_and_execute_combat, in insertion order: a
\* later entry with a key already present replaces the value in place.
RECURSIVE DictPut(_, _)
DictPut(d, e) ==
    IF d = <<>> THEN <<e>>
    ELSE IF d[1].key = e.key THEN <<e>> \o Tail(d)
    ELSE <<d[1]>> \o DictPut(Tail(d), e)

RECURSIVE AgentEntries(_, _, _)
AgentEntries(ags, i, d) ==
    IF i > Len(ags) THEN d
    ELSE IF ags[i].sheet = <<>> THEN AgentEntries(ags, i + 1, d)
    ELSE LET sh == ags[i].sheet[1]
         IN  AgentEntries(ags, i + 1, DictPut(d,
                 [key |-> Lower(ags[i].name), type |-> "player", ref |-> i,
                  mod |-> Max(get_ability_modifier(sh.strength),
                              get_ability_modifier(sh.dexterity)),
                  damage |-> ClassDamageDice(sh.class_name),
                  ac |-> sh.armor_class]))

RECURSIVE MonsterEntries(_, _, _)
MonsterEntries(mons, i, d) ==
    IF i > Len(mons) THEN d
    ELSE MonsterEntries(mons, i + 1, DictPut(d,
             [key |-> Lower(mons[i].name), type |-> "monster", ref |-> i,
              mod |-> Max(mons[i].str_mod, mons[i].dex_mod),
              damage |-> mons[i].damage,
              ac |-> mons[i].ac]))

BuildCombatants(ags, mons) == MonsterEntries(mons, 1, AgentEntries(ags, 1, <<>>))

\* The fuzzy loop of parse_and_execute_combat: the index of the entry the
\* loop leaves in attacker_info / target_info (the last one matching), 0 for None.
FuzzyFind(combatants, k) ==
    LET hits == {i \in 1..Len(combatants) :
                    Contains(k, combatants[i].key) \/ Contains(combatants[i].key, k)}
    IN  IF hits = {} THEN 0 ELSE CHOOSE i \in hits : \A j \in hits : j <= i

\* The damage subtracted without max(0, ...).
ApplyDamageUnclamped(result, target_info, st) ==
    IF ~result.hit THEN st
    ELSE IF target_info.type = "player"
    THEN [st EXCEPT !.agents[target_info.ref].sheet[1].current_hp = @ - result.damage,
                    !.dice_log = @ \o <<"hp_player">>]
    ELSE [st EXCEPT !.monsters[target_info.ref].hp = @ - result.damage,
                    !.dice_log = @ \o <<"hp_monster">>]

\* Damage applied with a slain monster deleted from the registry.
ApplyDamageRemoving(result, target_info, st) ==
    IF ~result.hit THEN st
    ELSE IF target_info.type = "player"
    THEN LET i == target_info.ref
             new_hp == Max(0, st.agents[i].sheet[1].current_hp - result.damage)
         IN  [st EXCEPT !.agents[i].sheet[1].current_hp = new_hp,
                        !.dice_log = @ \o <<IF new_hp = 0 THEN "unconscious"
                                                          ELSE "hp_player">>]
    ELSE LET i == target_info.ref
             new_hp == Max(0, st.monsters[i].hp - result.damage)
         IN  IF new_hp = 0
             THEN [st EXCEPT !.monsters = SubSeq(@, 1, i - 1) \o SubSeq(@, i + 1, Len(@)),
                             !.dice_log = @ \o <<"slain">>]
             ELSE [st EXCEPT !.monsters[i].hp = new_hp,
                             !.dice_log = @ \o <<"hp_monster">>]

\* Damage applied to the target and to every combatant of its kind.
ApplyDamageToAll(result, target_info, st) ==
    IF ~result.hit THEN st
    ELSE IF target_info.type = "player"
    THEN [st EXCEPT !.agents = [i \in 1..Len(@) |->
                                   IF @[i].sheet = <<>> THEN @[i]
                                   ELSE [@[i] EXCEPT !.sheet[1].current_hp =
                                            Max(0, @ - result.damage)]],
                    !.dice_log = @ \o <<"hp_player">>]
    ELSE [st EXCEPT !.monsters = [i \in 1..Len(@) |->
                                     [@[i] EXCEPT !.hp = Max(0, @ - result.damage)]],
                    !.dice_log = @ \o <<"hp_monster">>]

\* Lines 192-212: damage applied to the target of one resolved attack.
ApplyDamage(result, target_info, st) ==
    IF ~result.hit THEN st
    ELSE IF target_info.type = "player"
    THEN LET i == target_info.ref
             new_hp == Max(0, st.agents[i].sheet[1].current_hp - result.damage)
         IN  [st EXCEPT !.agents[i].sheet[1].current_hp = new_hp,
                        !.dice_log = @ \o <<IF new_hp = 0 THEN "unconscious"
                                                          ELSE "hp_player">>]
    ELSE LET i == target_info.ref
             new_hp == Max(0, st.monsters[i].hp - result.damage)
         IN  [st EXCEPT !.monsters[i].hp = new_hp,
                        !.dice_log = @ \o <<IF new_hp = 0 THEN "slain"
                                                          ELSE "hp_monster">>]

\* The loop body without "attacker_info is not target_info".
ResolveMatchSelfToo(m, combatants, st) ==
    LET att == FuzzyFind(combatants, Lower(Strip(m.att)))
        tgt == FuzzyFind(combatants, Lower(Strip(m.tgt)))
    IN  IF att # 0 /\ tgt # 0
        THEN { IF r.raised THEN [st EXCEPT !.raised = TRUE]
               ELSE ApplyDamage(r, combatants[tgt],
                        [st EXCEPT !.dice_log = @ \o <<r.narrative>>]) :
               r \in resolve_attack(combatants[att].mod, combatants[att].damage,
                                    combatants[tgt].ac) }
        ELSE {st}

\* One iteration of the loop over the attack pattern's matches.
ResolveMatch(m, combatants, st) ==
    LET att == FuzzyFind(combatants, Lower(Strip(m.att)))
        tgt == FuzzyFind(combatants, Lower(Strip(m.tgt)))
    IN  IF att # 0 /\ tgt # 0 /\ att # tgt
        THEN { IF r.raised THEN [st EXCEPT !.raised = TRUE]
               ELSE ApplyDamage(r, combatants[tgt],
                        [st EXCEPT !.dice_log = @ \o <<r.narrative>>]) :
               r \in resolve_attack(combatants[att].mod, combatants[att].damage,
                                    combatants[tgt].ac) }
        ELSE {st}

RECURSIVE CombatFrom(_, _, _)
CombatFrom(matches, combatants, st) ==
    IF matches = <<>> \/ st.raised THEN {st}
    ELSE UNION { CombatFrom(Tail(matches), combatants, st2) :
                 st2 \in ResolveMatch(Head(matches), combatants, st) }

\* parse_and_execute_combat: every (agents, monsters, dice_log) the call can
\* leave behind for a narration with the given attack matches.
parse_and_execute_combat(ai_text, ags, mons) ==
    CombatFrom(ai_text.attacks, BuildCombatants(ags, mons),
               [agents |-> ags, monsters |-> mons, dice_log |-> <<>>,
                raised |-> FALSE])

\* ------------------------------------------------------------ spawn pass

word_to_num(w) ==
    CASE w \in {<<"a">>, <<"a","n">>, <<"t","h","e">>} -> 1
      [] w = <<"t","w","o">> -> 2
      [] w = <<"t","h","r","e","e">> -> 3
      [] w = <<"f","o","u","r">> -> 4
      [] w = <<"f","i","v","e">> -> 5
      [] OTHER -> 1

\* The spawn loop without "if mname not in monsters".
HasMonsterNever(mons, mname) == FALSE

\* mname in monsters
HasMonster(mons, mname) == \E i \in 1..Len(mons) : mons[i].name = mname

TemplateOf(n) ==
    MONSTER_TEMPLATES[CHOOSE i \in 1..Len(MONSTER_TEMPLATES) :
                          MONSTER_TEMPLATES[i].name = n]

\* Lines 236-239: the monsters one match registers.
RECURSIVE SpawnCount(_, _, _, _)
SpawnCount(mons, template, count, i) ==
    IF i > count THEN mons
    ELSE LET mname == IF count > 1 THEN template.name \o <<" ">> \o IntToStr(i)
                      ELSE template.name
         IN  SpawnCount(IF HasMonster(mons, mname) THEN mons
                        ELSE Append(mons, [template EXCEPT !.name = mname]),
                        template, count, i + 1)

\* parse_monster_spawns over the matches its patterns find, in the order
\* the loops over templates and patterns meet them.
RECURSIVE parse_monster_spawns(_, _)
parse_monster_spawns(found, mons) ==
    IF found = <<>> THEN mons
    ELSE LET match == Head(found)
             count == IF IsDigits(match.word) THEN StrToInt(match.word)
                      ELSE word_to_num(Lower(match.word))
         IN  parse_monster_spawns(Tail(found),
                 SpawnCount(mons, TemplateOf(match.template), count, 1))

\* ------------------------------------------------------------ narration

\* A narration, by what the source's regular expressions find in it:
\* attacks is attack_pattern.findall(text), spawns the matches of the three
\* patterns of parse_monster_spawns in the order its loops meet them.
MkText(a, sp) == [attacks |-> a, spawns |-> sp]

\* "The wind howls."
TxtQuiet == MkText(<<>>, <<>>)

\* "A goblin leaps out."
TxtSpawnA == MkText(<<>>, <<[template |-> NGoblin, word |-> <<"A">>]>>)

\* "Thorin attacks the goblin."
TxtPvM ==
    MkText(<<[att |-> NThorin, tgt |-> <<"t","h","e"," ">> \o Lower(NGoblin)]>>,
           <<[template |-> NGoblin, word |-> <<"t","h","e">>]>>)

\* "The goblin attacks Thorin."
TxtMvP ==
    MkText(<<[att |-> <<"T","h","e"," ">> \o Lower(NGoblin), tgt |-> NThorin]>>,
           <<[template |-> NGoblin, word |-> <<"T","h","e">>]>>)

Texts == {TxtQuiet, TxtSpawnA, TxtPvM, TxtMvP}

\* ------------------------------------------------------- narrator call

\* A field of the JSON body: t is "absent", "str" (a non-empty string),
\* "falsy" ("" / null / 0 / []) or "obj" (a truthy value that is no string).
Field(t, text) == [t |-> t, text |-> text]
Absent == Field("absent", TxtQuiet)

\* What httpx.post can do: raise (exc), or answer with a status and a body
\* that is a JSON object (content, message), other JSON, or no JSON (raw).
MkResp(exc, status, json, content, message, raw) ==
    [exc |-> exc, status |-> status, json |-> json, content |-> content,
     message |-> message, raw |-> raw]

Responses ==
    { MkResp("none", 200, "dict", Field("str", t), Absent, t) : t \in Texts }
    \cup { MkResp("none", 200, "dict", Absent, Field("str", TxtMvP), TxtMvP),
           MkResp("none", 200, "dict", Field("falsy", TxtQuiet), Absent, TxtQuiet),
           MkResp("none", 200, "dict", Field("obj", TxtQuiet), Absent, TxtQuiet),
           MkResp("none", 200, "list", Absent, Absent, TxtQuiet),
           MkResp("none", 200, "invalid", Absent, Absent, TxtMvP),
           MkResp("none", 200, "empty", Absent, Absent, TxtQuiet),
           MkResp("none", 500, "invalid", Absent, Absent, TxtMvP),
           MkResp("timeout", 0, "invalid", Absent, Absent, TxtQuiet),
           MkResp("connect", 0, "invalid", Absent, Absent, TxtQuiet),
           MkResp("other", 0, "invalid", Absent, Absent, TxtQuiet) }

\* The string call_n8n returns: kind names which of its texts it is, text
\* what the intent patterns find in it.  A fallback that quotes the body
\* (response.text, str(data)) carries the body's matches: its own words end
\* in ": " and hold no attack verb and no template name.  is_str is FALSE
\* for a truthy content/message value that is not a string, returned as is.
Content(kind, text) == [is_str |-> TRUE, kind |-> kind, text |-> text]

call_n8n(resp) ==
    CASE resp.exc = "timeout" -> Content("timeout", TxtQuiet)
      [] resp.exc = "connect" -> Content("connect", TxtQuiet)
      [] resp.exc = "other" -> Content("failed", TxtQuiet)
      [] OTHER ->
         IF resp.status = 200
         THEN CASE resp.json = "dict" ->
                     LET c == IF resp.content.t \in {"str", "obj"}
                              THEN resp.content ELSE resp.message
                     IN  IF c.t = "str" THEN Content("content", c.text)
                         ELSE IF c.t = "obj"
                         THEN [is_str |-> FALSE, kind |-> "content", text |-> TxtQuiet]
                         ELSE Content("nokey", resp.raw)
                [] resp.json = "list" -> Content("failed", TxtQuiet)
                [] resp.json = "empty" -> Content("empty", TxtQuiet)
                [] OTHER -> Content("nonjson", resp.raw)
         ELSE Content("status", resp.raw)

\* ---------------------------------------------------------------- agents

\* st.session_state.human_agent_idx = None
NoneIdx == -1

\* The dnd_character sheet of a level-1 character (the library's output).
Sheet(cls, str, dex, ac, hp) ==
    [class_name |-> cls, strength |-> str, dexterity |-> dex,
     armor_class |-> ac, max_hp |-> hp, current_hp |-> hp]

\* Agent.__init__: only a PLAYER with a class has a sheet (<<>> is None).
Agent(name, role, sheet, is_human) ==
    [name |-> name, role |-> role, is_human |-> is_human,
     sheet |-> IF role = "PLAYER" THEN <<sheet>> ELSE <<>>]

PThorin(h) == Agent(NThorin, "PLAYER", Sheet("Wizard", 9, 14, 12, 6), h)
PElara(h)  == Agent(NElara, "PLAYER", Sheet("Wizard", 8, 14, 12, 7), h)
PKael(h)   == Agent(NKael, "PLAYER", Sheet("Rogue", 10, 16, 13, 9), h)
DM(h)      == Agent(NDungeonMaster, "DM", <<>>, h)
\* A second player whose name field was given "thorin".
PThorinAgain(h) == Agent(Lower(NThorin), "PLAYER", Sheet("Rogue", 10, 16, 13, 9), h)

\* The sidebar's set-ups the model draws from: agents_list of the
\* Initialize Game handler, the DM first.
Setups ==
    { <<DM(d), PThorin(p)>> : d \in BOOLEAN, p \in BOOLEAN }
    \cup { <<DM(FALSE), PThorin(FALSE), PElara(TRUE), PKael(FALSE)>> }

\* ---------------------------------------------------------- orchestrator

CurrentIdx == turn_idx % Len(agents)

\* get_current_agent
get_current_agent == agents[CurrentIdx + 1]

\* append_message; turn and actor are history fields (the turn pointer and
\* the acting agent's index when the entry was appended).
append_message(log, name, role, is_dice, actor) ==
    Append(log, [name |-> name, role |-> role, is_dice |-> is_dice,
                 turn |-> turn_idx, actor |-> actor])

MsgRole(agent) == IF agent.role = "DM" THEN "assistant" ELSE "user"

\* The combat entry put in front of the narration it belongs to.
AppendDiceFirst(log, dice_log) ==
    IF dice_log = <<>> THEN log
    ELSE append_message(SubSeq(log, 1, Len(log) - 1), NCombat, "assistant", TRUE,
                        NoneIdx) \o <<log[Len(log)]>>

\* Lines 528-530 / 562-564: the combat entry, when dice were rolled.
AppendDice(log, dice_log) ==
    IF dice_log = <<>> THEN log
    ELSE append_message(log, NCombat, "assistant", TRUE, NoneIdx)

\* History of one orchestration invocation (a Play Turn click, an auto-play
\* tick, a human submission): the pointer and the endpoint setting it
\* started with, the actor indices the narrator was called for, the turns
\* it resolved, whether it ended in an exception, whether it has ended.
BeginInv(kind) ==
    [kind |-> kind, start |-> turn_idx, hook |-> webhook_url, calls |-> <<>>,
     steps |-> 0, crashed |-> FALSE, done |-> FALSE]

\* No invocation on record.
NoInv ==
    [kind |-> "none", start |-> 0, hook |-> FALSE, calls |-> <<>>, steps |-> 0,
     crashed |-> FALSE, done |-> FALSE]

Event(ev, text) == [ev |-> ev, text |-> text]

\* No function is under call.
NoProbe == [op |-> "none", arg |-> <<>>, out |-> <<>>, done |-> FALSE]

\* User events handled at any moment, a running script or not.
QuiescentAlways == TRUE

\* No script run is executing: the next one starts on a user's event or on
\* the rerun the last one asked for.
Quiescent == pc \in {"idle", "rerun"}

Init ==
    /\ initialized = FALSE
    /\ agents = <<>>
    /\ game_log = <<>>
    /\ turn_idx = 0
    /\ monsters = <<>>
    /\ auto_play = FALSE
    /\ waiting_for_human = FALSE
    /\ human_agent_idx = NoneIdx
    /\ webhook_url = FALSE
    /\ pc = "idle"
    /\ safety = 0
    /\ inv = NoInv
    /\ party = <<>>
    /\ history = <<>>
    /\ turn_index = 0
    /\ game_active = FALSE
    /\ last = Event("none", TxtQuiet)
    /\ probe = NoProbe

\* The handler without lines 358-360: auto-play and the human wait survive.
InitializeKeepingFlags ==
    /\ Quiescent
    /\ \E s \in Setups : agents' = s
    /\ game_log' = <<>>
    /\ turn_idx' = 0
    /\ monsters' = <<>>
    /\ initialized' = TRUE
    /\ pc' = "rerun"
    /\ inv' = NoInv
    /\ last' = Event("init", TxtQuiet)
    /\ UNCHANGED <<webhook_url, safety, auto_play, waiting_for_human, human_agent_idx>>
    /\ UNCHANGED oldVars
    /\ UNCHANGED probe

\* The Initialize Game button.
Initialize ==
    /\ Quiescent
    /\ \E s \in Setups : agents' = s
    /\ game_log' = <<>>
    /\ turn_idx' = 0
    /\ monsters' = <<>>
    /\ auto_play' = FALSE
    /\ waiting_for_human' = FALSE
    /\ human_agent_idx' = NoneIdx
    /\ initialized' = TRUE
    /\ pc' = "rerun"
    /\ inv' = NoInv
    /\ last' = Event("init", TxtQuiet)
    /\ UNCHANGED <<webhook_url, safety>>
    /\ UNCHANGED oldVars
    /\ UNCHANGED probe

\* The sidebar's webhook field edited: the script runs again.
SetWebhook ==
    /\ Quiescent
    /\ webhook_url' = ~webhook_url
    /\ pc' = "rerun"
    /\ last' = Event("trigger", TxtQuiet)
    /\ UNCHANGED <<initialized, agents, game_log, turn_idx, monsters, auto_play,
                   waiting_for_human, human_agent_idx, safety, inv>>
    /\ UNCHANGED oldVars
    /\ UNCHANGED probe

\* process_ai_turn without the check of lines 508-510.
StartAiTurnUnchecked(iv) ==
    /\ safety' = 0
    /\ turn_idx < MaxTurns
    /\ pc' = "calling"
    /\ inv' = [iv EXCEPT !.calls = Append(@, CurrentIdx)]
    /\ UNCHANGED <<waiting_for_human, human_agent_idx>>

\* process_ai_turn up to the narrator call (lines 506-514), entered from a
\* handler (which then calls run_ai_chain: safety starts at 0).
StartAiTurn(iv) ==
    /\ safety' = 0
    /\ IF ~webhook_url
       THEN /\ pc' = "chain"
            /\ inv' = iv
       ELSE /\ turn_idx < MaxTurns
            /\ pc' = "calling"
            /\ inv' = [iv EXCEPT !.calls = Append(@, CurrentIdx)]
    /\ UNCHANGED <<waiting_for_human, human_agent_idx>>

\* The wait recorded for the actor after the current one.
AwaitHumanNext(iv) ==
    /\ waiting_for_human' = TRUE
    /\ human_agent_idx' = (turn_idx + 1) % Len(agents)
    /\ pc' = "rerun"
    /\ inv' = [iv EXCEPT !.done = TRUE]
    /\ UNCHANGED safety

\* Lines 588-591 / 607-611: it is a human's turn.
AwaitHuman(iv) ==
    /\ waiting_for_human' = TRUE
    /\ human_agent_idx' = turn_idx % Len(agents)
    /\ pc' = "rerun"
    /\ inv' = [iv EXCEPT !.done = TRUE]
    /\ UNCHANGED safety

\* The Play Turn button (lines 587-596).
PlayTurn ==
    /\ Quiescent /\ initialized /\ ~waiting_for_human
    /\ IF get_current_agent.is_human
       THEN AwaitHuman(BeginInv("play"))
       ELSE StartAiTurn(BeginInv("play"))
    /\ last' = Event("trigger", TxtQuiet)
    /\ UNCHANGED <<initialized, agents, game_log, turn_idx, monsters, auto_play,
                   webhook_url>>
    /\ UNCHANGED oldVars
    /\ UNCHANGED probe

\* Lines 606-616: the auto-play logic at the end of a script run.
AutoPlayLogic ==
    IF get_current_agent.is_human
    THEN AwaitHuman(BeginInv("auto"))
    ELSE StartAiTurn(BeginInv("auto"))

\* The Auto-Play toggle flipped (lines 598-616).
ToggleAuto ==
    /\ Quiescent /\ initialized /\ ~waiting_for_human
    /\ auto_play' = ~auto_play
    /\ IF auto_play'
       THEN AutoPlayLogic
       ELSE /\ pc' = "idle"
            /\ UNCHANGED <<waiting_for_human, human_agent_idx, safety, inv>>
    /\ last' = Event("trigger", TxtQuiet)
    /\ UNCHANGED <<initialized, agents, game_log, turn_idx, monsters, webhook_url>>
    /\ UNCHANGED oldVars
    /\ UNCHANGED probe

\* The rerun with an auto-play block that looks neither at the human-wait
\* flag nor at the actor's disposition.
RerunWhileWaiting ==
    /\ pc = "rerun"
    /\ IF initialized /\ auto_play
       THEN StartAiTurn(BeginInv("auto"))
       ELSE /\ pc' = "idle"
            /\ inv' = NoInv
            /\ UNCHANGED <<waiting_for_human, human_agent_idx, safety>>
    /\ last' = Event("trigger", TxtQuiet)
    /\ UNCHANGED <<initialized, agents, game_log, turn_idx, monsters, auto_play,
                   webhook_url>>
    /\ UNCHANGED oldVars
    /\ UNCHANGED probe

\* A script run that st.rerun() asked for: no button is pressed in it.
Rerun ==
    /\ pc = "rerun"
    /\ IF initialized /\ ~waiting_for_human /\ auto_play
       THEN AutoPlayLogic
       ELSE /\ pc' = "idle"
            /\ inv' = NoInv
            /\ UNCHANGED <<waiting_for_human, human_agent_idx, safety>>
    /\ last' = Event("trigger", TxtQuiet)
    /\ UNCHANGED <<initialized, agents, game_log, turn_idx, monsters, auto_play,
                   webhook_url>>
    /\ UNCHANGED oldVars
    /\ UNCHANGED probe

\* len(agents) + 1
max_chain == Len(agents) + 1

\* run_ai_chain's loop without "safety += 1".
ChainStepUncounted ==
    /\ pc = "chain"
    /\ IF get_current_agent.is_human \/ ~webhook_url
       THEN /\ pc' = "rerun"
            /\ inv' = [inv EXCEPT !.done = TRUE]
       ELSE /\ turn_idx < MaxTurns
            /\ pc' = "calling"
            /\ inv' = [inv EXCEPT !.calls = Append(@, CurrentIdx)]
    /\ safety' = 0
    /\ last' = Event("trigger", TxtQuiet)
    /\ UNCHANGED <<initialized, agents, game_log, turn_idx, monsters, auto_play,
                   waiting_for_human, human_agent_idx, webhook_url>>
    /\ UNCHANGED oldVars
    /\ UNCHANGED probe

\* run_ai_chain's loop without "if agent.is_human: break".
ChainStepPastHumans ==
    /\ pc = "chain"
    /\ IF safety < max_chain
       THEN IF ~webhook_url
            THEN /\ pc' = "rerun"
                 /\ safety' = 0
                 /\ inv' = [inv EXCEPT !.done = TRUE]
            ELSE /\ turn_idx < MaxTurns
                 /\ pc' = "calling"
                 /\ safety' = safety + 1
                 /\ inv' = [inv EXCEPT !.calls = Append(@, CurrentIdx)]
       ELSE /\ pc' = "rerun"
            /\ safety' = 0
            /\ inv' = [inv EXCEPT !.done = TRUE]
    /\ last' = Event("trigger", TxtQuiet)
    /\ UNCHANGED <<initialized, agents, game_log, turn_idx, monsters, auto_play,
                   waiting_for_human, human_agent_idx, webhook_url>>
    /\ UNCHANGED oldVars
    /\ UNCHANGED probe

\* One pass of run_ai_chain's loop, up to the narrator call or the break
\* (safety, a local, is 0 again once the function has returned).
ChainStep ==
    /\ pc = "chain"
    /\ IF safety < max_chain
       THEN IF get_current_agent.is_human \/ ~webhook_url
            THEN /\ pc' = "rerun"
                 /\ safety' = 0
                 /\ inv' = [inv EXCEPT !.done = TRUE]
            ELSE /\ turn_idx < MaxTurns
                 /\ pc' = "calling"
                 /\ safety' = safety + 1
                 /\ inv' = [inv EXCEPT !.calls = Append(@, CurrentIdx)]
       ELSE /\ pc' = "rerun"
            /\ safety' = 0
            /\ inv' = [inv EXCEPT !.done = TRUE]
    /\ last' = Event("trigger", TxtQuiet)
    /\ UNCHANGED <<initialized, agents, game_log, turn_idx, monsters, auto_play,
                   waiting_for_human, human_agent_idx, webhook_url>>
    /\ UNCHANGED oldVars
    /\ UNCHANGED probe

\* The spawn pass run for every role.
ProcessNarrationAnyRole(cur, text, ags, mons) ==
    parse_and_execute_combat(text, ags, parse_monster_spawns(text.spawns, mons))

\* Lines 516-521 of process_ai_turn: the spawn pass when the DM acts, then
\* the attack pass.
ProcessNarration(cur, text, ags, mons) ==
    parse_and_execute_combat(text, ags,
        IF cur.role = "DM" THEN parse_monster_spawns(text.spawns, mons) ELSE mons)

\* process_ai_turn from the narrator's answer on (lines 514-532).  A content
\* that is no string makes re.findall raise TypeError: the script run ends
\* there, with nothing appended.
NarratorReturn ==
    /\ pc = "calling"
    /\ \E resp \in Responses :
         LET content == call_n8n(resp)
             cur == get_current_agent
         IN  IF ~content.is_str
             THEN /\ pc' = "idle"
                  /\ inv' = [inv EXCEPT !.crashed = TRUE, !.done = TRUE]
                  /\ last' = Event("crash", TxtQuiet)
                  /\ UNCHANGED <<agents, monsters, game_log, turn_idx>>
             ELSE \E o \in ProcessNarration(cur, content.text, agents, monsters) :
                        /\ agents' = o.agents
                        /\ monsters' = o.monsters
                        /\ IF o.raised
                           THEN /\ pc' = "idle"
                                /\ inv' = [inv EXCEPT !.crashed = TRUE, !.done = TRUE]
                                /\ last' = Event("crash", TxtQuiet)
                                /\ UNCHANGED <<game_log, turn_idx>>
                           ELSE /\ game_log' = AppendDice(
                                       append_message(game_log, cur.name, MsgRole(cur),
                                                      FALSE, CurrentIdx),
                                       o.dice_log)
                                /\ turn_idx' = turn_idx + 1
                                /\ pc' = "chain"
                                /\ inv' = [inv EXCEPT !.steps = @ + 1]
                                /\ last' = Event("narrator", TxtQuiet)
    /\ safety' = IF pc' = "idle" THEN 0 ELSE safety
    /\ UNCHANGED <<initialized, auto_play, waiting_for_human, human_agent_idx,
                   webhook_url>>
    /\ UNCHANGED oldVars
    /\ UNCHANGED probe

\* process_human_input (lines 553-571) up to its call of run_ai_chain.
HumanSubmit ==
    /\ Quiescent /\ initialized /\ waiting_for_human
    /\ turn_idx < MaxTurns
    /\ \E text \in Texts :
         LET cur == agents[human_agent_idx + 1]
             log1 == append_message(game_log, cur.name, MsgRole(cur), FALSE,
                                    human_agent_idx)
         IN  IF cur.role = "PLAYER"
             THEN \E o \in parse_and_execute_combat(text, agents, monsters) :
                    /\ agents' = o.agents
                    /\ monsters' = o.monsters
                    /\ IF o.raised
                       THEN /\ game_log' = log1
                            /\ pc' = "idle"
                            /\ inv' = [BeginInv("human") EXCEPT !.crashed = TRUE,
                                                                 !.done = TRUE]
                            /\ last' = Event("crash", text)
                            /\ UNCHANGED <<turn_idx, waiting_for_human,
                                           human_agent_idx, safety>>
                       ELSE /\ game_log' = AppendDice(log1, o.dice_log)
                            /\ turn_idx' = turn_idx + 1
                            /\ waiting_for_human' = FALSE
                            /\ human_agent_idx' = NoneIdx
                            /\ pc' = "chain"
                            /\ safety' = 0
                            /\ inv' = [BeginInv("human") EXCEPT !.steps = 1]
                            /\ last' = Event("human", text)
             ELSE /\ game_log' = log1
                  /\ turn_idx' = turn_idx + 1
                  /\ waiting_for_human' = FALSE
                  /\ human_agent_idx' = NoneIdx
                  /\ pc' = "chain"
                  /\ safety' = 0
                  /\ inv' = [BeginInv("human") EXCEPT !.steps = 1]
                  /\ last' = Event("human", text)
                  /\ UNCHANGED <<agents, monsters>>
    /\ UNCHANGED <<initialized, auto_play, webhook_url>>
    /\ UNCHANGED oldVars
    /\ UNCHANGED probe

Next ==
    \/ Initialize
    \/ SetWebhook
    \/ PlayTurn
    \/ ToggleAuto
    \/ Rerun
    \/ ChainStep
    \/ NarratorReturn
    \/ HumanSubmit

Spec == Init /\ [][Next]_vars

\* ------------------------------------------------ AI RPG Auto-Battler
\* src/Dm App/old_app.py and old_models.py: an earlier program of the
\* repository with its own session state.  Its script thread is at
\* "old_idle" or "old_rerun", where no handler of the Arena is enabled.

\* PlayerAgent.is_alive
is_alive(agent) == agent.current_hp > 0

\* take_damage without max(0, ...).
take_damage_unclamped(agent, amount) ==
    [agent EXCEPT !.current_hp = @ - (IF amount < 0 THEN -amount ELSE amount)]

\* PlayerAgent.take_damage
take_damage(agent, amount) ==
    LET before == agent.current_hp
        magnitude == IF amount < 0 THEN -amount ELSE amount
    IN  [agent EXCEPT !.current_hp = Max(0, before - magnitude)]

\* The value take_damage returns (old_models.py line 163).
take_damage_returns(agent, amount) ==
    agent.current_hp - take_damage(agent, amount).current_hp

\* PlayerAgent.heal
heal(agent, amount) ==
    LET before == agent.current_hp
        magnitude == IF amount < 0 THEN -amount ELSE amount
        raised == before + magnitude
    IN  [agent EXCEPT !.current_hp = IF raised < agent.max_hp THEN raised
                                     ELSE agent.max_hp]

\* A member of the party: the character's name and hit points.
Member(name, max_hp) == [name |-> name, current_hp |-> max_hp, max_hp |-> max_hp]

\* generate_party: three members with distinct names; hit points are the
\* character library's, at their maximum.
Parties ==
    { <<Member(NThorin, t), Member(NElara, 3), Member(NKael, h)>> :
        t \in {2, 4}, h \in {2, 3} }

\* One cue found by _parse_stat_changes.
Cue(target, type, amount) == [target |-> target, type |-> type, amount |-> amount]

NButKael == <<"b","u","t"," ">> \o NKael
NTheGoblin == <<"T","h","e"," ">> \o Lower(NGoblin)

\* _parse_stat_changes on the narrations of the model: the damage cues in
\* text order, then the healing cues.
\* "The wind howls."
CuesQuiet == <<>>
\* "Thorin takes 2 damage."
CuesHit == <<Cue(NThorin, "damage", 2)>>
\* "Elara takes 9 damage!"
CuesOverkill == <<Cue(NElara, "damage", 9)>>
\* "Thorin heals 9 hp, but Kael takes 3 damage."
CuesHealAndHit == <<Cue(NButKael, "damage", 3), Cue(NThorin, "heal", 9)>>
\* "The goblin takes 4 damage."
CuesStranger == <<Cue(NTheGoblin, "damage", 4)>>

CueTexts == {CuesQuiet, CuesHit, CuesOverkill, CuesHealAndHit, CuesStranger}

\* Lines 162-168 of _apply_stat_changes: the exact name, else the first
\* member whose name contains the target or is contained in it (0: none).
FindMember(target_key, members) ==
    LET exact == {i \in 1..Len(members) : Lower(members[i].name) = target_key}
        fuzzy == {i \in 1..Len(members) :
                     \/ Contains(Lower(members[i].name), target_key)
                     \/ Contains(target_key, Lower(members[i].name))}
        First(S) == CHOOSE i \in S : \A j \in S : i <= j
    IN  IF exact # {} THEN First(exact)
        ELSE IF fuzzy # {} THEN First(fuzzy)
        ELSE 0

\* _apply_stat_changes: the party after the cues, and the number of log
\* lines written.
RECURSIVE apply_stat_changes(_, _, _)
apply_stat_changes(changes, members, logs) ==
    IF changes = <<>> THEN [party |-> members, logs |-> logs]
    ELSE LET ch == Head(changes)
             i == FindMember(Lower(ch.target), members)
         IN  IF i = 0 THEN apply_stat_changes(Tail(changes), members, logs)
             ELSE apply_stat_changes(
                      Tail(changes),
                      [members EXCEPT ![i] = IF ch.type = "damage"
                                             THEN take_damage(@, ch.amount)
                                             ELSE heal(@, ch.amount)],
                      logs + 1)

\* What _send_to_n8n hands back and what run_turn reads from it: a narration
\* with its cues; the narration _send_to_n8n makes of an error; a JSON body
\* that is no object (result.get raises); a narration that is no string
\* (re.finditer raises after the entry was recorded).
OldResponses ==
    { [kind |-> "text", cues |-> c] : c \in CueTexts }
    \cup { [kind |-> k, cues |-> <<>>] : k \in {"error", "not_object", "not_string"} }

\* Indices in the party of the members alive (run_turn, line 211).
Living == SelectSeq([i \in 1..Len(party) |-> i], LAMBDA i : is_alive(party[i]))

\* The agent run_turn picks (lines 217-228): 0 for the DM, else the index in
\* the party of living[(turn // 2) % len(living)].
TurnAgent ==
    IF turn_index % 2 = 0 THEN 0
    ELSE Living[((turn_index \div 2) % Len(Living)) + 1]

Entry(sender, role) == [sender |-> sender, role |-> role, turn |-> turn_index]

OldOutcome(p, h, t, g, crashed) ==
    [party |-> p, history |-> h, turn_index |-> t, game_active |-> g,
     crashed |-> crashed]

\* run_turn with the endpoint setting of this script run: the session
\* states it can leave, and whether it ended in an exception.
run_turn(hook) ==
    IF ~hook
    THEN {OldOutcome(party, history, turn_index, game_active, FALSE)}
    ELSE IF Living = <<>>
    THEN {OldOutcome(party, history, turn_index, FALSE, FALSE)}
    ELSE IF turn_index >= OldMaxTurns \/ Len(history) + 2 > OldMaxHistory THEN {}
    ELSE LET entry == Entry(TurnAgent, IF TurnAgent = 0 THEN "DM" ELSE "PLAYER")
             recorded == Append(history, entry)
         IN  { IF resp.kind = "not_object"
               THEN OldOutcome(party, history, turn_index, game_active, TRUE)
               ELSE IF resp.kind = "not_string"
               THEN OldOutcome(party, recorded, turn_index, game_active, TRUE)
               ELSE LET done == apply_stat_changes(resp.cues, party, 0)
                    IN  OldOutcome(done.party,
                                   IF done.logs > 0
                                   THEN Append(recorded, Entry(NoneIdx, "SYSTEM"))
                                   ELSE recorded,
                                   turn_index + 1, game_active, FALSE) :
               resp \in OldResponses }

\* The session state run_turn leaves; st.rerun() follows unless it raised.
RunTurn(hook) ==
    \E o \in run_turn(hook) :
        /\ party' = o.party
        /\ history' = o.history
        /\ turn_index' = o.turn_index
        /\ game_active' = o.game_active
        /\ pc' = IF o.crashed THEN "old_idle" ELSE "old_rerun"

\* Lines 364-367: the auto-play block at the end of a script run that
\* reached it, with the session's settings of that run.
OldAutoPlay(auto, hook) ==
    IF party # <<>> /\ auto /\ game_active
    THEN RunTurn(hook)
    ELSE pc' = "old_idle" /\ UNCHANGED oldVars

OldQuiescent == pc \in {"old_idle", "old_rerun"}

\* The Auto-Battler's first script run: _DEFAULTS.
OldInit ==
    /\ initialized = FALSE
    /\ agents = <<>>
    /\ game_log = <<>>
    /\ turn_idx = 0
    /\ monsters = <<>>
    /\ auto_play = FALSE
    /\ waiting_for_human = FALSE
    /\ human_agent_idx = NoneIdx
    /\ webhook_url = FALSE
    /\ pc = "old_idle"
    /\ safety = 0
    /\ inv = NoInv
    /\ party = <<>>
    /\ history = <<>>
    /\ turn_index = 0
    /\ game_active = FALSE
    /\ last = Event("none", TxtQuiet)
    /\ probe = NoProbe

\* The Generate Party button (lines 103-117).
GenerateParty ==
    /\ OldQuiescent
    /\ party' \in Parties
    /\ history' = <<>>
    /\ turn_index' = 0
    /\ game_active' = TRUE
    /\ pc' = "old_rerun"
    /\ last' = Event("old_generate", TxtQuiet)
    /\ UNCHANGED <<auto_play, webhook_url>>
    /\ UNCHANGED arenaVars
    /\ UNCHANGED probe

\* The sidebar's webhook field edited (lines 67-71); the run goes on to the
\* auto-play block.
OldSetWebhook ==
    /\ OldQuiescent
    /\ webhook_url' = ~webhook_url
    /\ OldAutoPlay(auto_play, webhook_url')
    /\ last' = Event("old_setting", TxtQuiet)
    /\ UNCHANGED auto_play
    /\ UNCHANGED arenaVars
    /\ UNCHANGED probe

\* The Play Next Turn button (lines 347-351), disabled when the game is
\* not active; the controls are drawn only when there is a party.
PlayNextTurn ==
    /\ OldQuiescent
    /\ party # <<>> /\ game_active
    /\ RunTurn(webhook_url)
    /\ last' = Event("old_play", TxtQuiet)
    /\ UNCHANGED <<auto_play, webhook_url>>
    /\ UNCHANGED arenaVars
    /\ UNCHANGED probe

\* The Auto-Play checkbox flipped (lines 353-355, 364-367).
OldToggleAuto ==
    /\ OldQuiescent
    /\ party # <<>>
    /\ auto_play' = ~auto_play
    /\ OldAutoPlay(auto_play', webhook_url)
    /\ last' = Event("old_setting", TxtQuiet)
    /\ UNCHANGED webhook_url
    /\ UNCHANGED arenaVars
    /\ UNCHANGED probe

\* The Reset button (lines 357-361): every key back to _DEFAULTS.
Reset ==
    /\ OldQuiescent
    /\ party # <<>>
    /\ party' = <<>>
    /\ history' = <<>>
    /\ turn_index' = 0
    /\ game_active' = FALSE
    /\ auto_play' = FALSE
    /\ webhook_url' = FALSE
    /\ pc' = "old_rerun"
    /\ last' = Event("old_reset", TxtQuiet)
    /\ UNCHANGED arenaVars
    /\ UNCHANGED probe

\* A script run that st.rerun() asked for.
OldRerun ==
    /\ pc = "old_rerun"
    /\ OldAutoPlay(auto_play, webhook_url)
    /\ last' = Event("old_auto", TxtQuiet)
    /\ UNCHANGED <<auto_play, webhook_url>>
    /\ UNCHANGED arenaVars
    /\ UNCHANGED probe

OldNext ==
    \/ GenerateParty
    \/ OldSetWebhook
    \/ PlayNextTurn
    \/ OldToggleAuto
    \/ Reset
    \/ OldRerun

\* The Auto-Battler alone.
OldSpec == OldInit /\ [][OldNext]_vars

AllInit == Init \/ OldInit

AllNext == Next \/ OldNext

\* Either program of the repository, from its first script run.
AllSpec == AllInit /\ [][AllNext]_vars

\* ------------------------------------------------ functions under call
\* The functions of the source called on their own: the first state holds
\* the arguments of one call, the step applies the function.

Call(op, arg) == [op |-> op, arg |-> arg, out |-> <<>>, done |-> FALSE]

\* take_damage on a member with h hit points of MaxProbeHp.
TakeDamageCalls ==
    { Call("take_damage", [h |-> h, amount |-> a]) :
        h \in 0..MaxProbeHp, a \in (0 - MaxProbeAmount)..MaxProbeAmount }

CallTakeDamage ==
    /\ pc = "fn" /\ probe.op = "take_damage" /\ ~probe.done
    /\ LET agent == [Member(NThorin, MaxProbeHp) EXCEPT !.current_hp = probe.arg.h]
       IN  probe' = [probe EXCEPT
                        !.out = [hp |-> take_damage(agent, probe.arg.amount).current_hp,
                                 returned |-> take_damage_returns(agent, probe.arg.amount)],
                        !.done = TRUE]
    /\ UNCHANGED <<initialized, agents, game_log, turn_idx, monsters, auto_play,
                   waiting_for_human, human_agent_idx, webhook_url, pc, safety, inv,
                   last>>
    /\ UNCHANGED oldVars

\* roll_dice on notations of the form NdM with N, M >= 1 (count and sides
\* are the N and M written in them) and on others.
RollDiceCalls ==
    { Call("roll_dice", [notation |-> v[1], valid |-> TRUE, count |-> v[2], sides |-> v[3]]) :
        v \in { <<<<"1","d","6">>, 1, 6>>,
                <<<<"2","d","4">>, 2, 4>>,
                <<<<"3","d","2">>, 3, 2>>,
                <<<<"1","d","1">>, 1, 1>>,
                <<<<"2","d","6">>, 2, 6>> } }
    \cup
    { Call("roll_dice", [notation |-> n, valid |-> FALSE, count |-> 0, sides |-> 0]) :
        n \in { <<"d","6">>,
                <<"1","d">>,
                <<"a","b","c">>,
                <<>>,
                <<"1","D","6">>,
                <<"1","d","6","x">>,
                <<"2","d","4","+","3">>,
                <<"0","d","6">>,
                <<"1","d","0">> } }

CallRollDice ==
    /\ pc = "fn" /\ probe.op = "roll_dice" /\ ~probe.done
    /\ \E r \in roll_dice(probe.arg.notation) :
          probe' = [probe EXCEPT !.out = r, !.done = TRUE]
    /\ UNCHANGED <<initialized, agents, game_log, turn_idx, monsters, auto_play,
                   waiting_for_human, human_agent_idx, webhook_url, pc, safety, inv,
                   last>>
    /\ UNCHANGED oldVars

\* resolve_attack with a modifier below and far above the usual, an AC
\* within and out of reach (count and sides are those of the notation).
ResolveAttackCalls ==
    { Call("resolve_attack",
           [mod |-> md, notation |-> v[1], count |-> v[2], sides |-> v[3], ac |-> ac]) :
        md \in {-1, 25}, ac \in {8, 30},
        v \in { <<D1d6, 1, 6>>, <<<<"2","d","4">>, 2, 4>> } }

CallResolveAttack ==
    /\ pc = "fn" /\ probe.op = "resolve_attack" /\ ~probe.done
    /\ \E r \in resolve_attack(probe.arg.mod, probe.arg.notation, probe.arg.ac) :
          probe' = [probe EXCEPT !.out = r, !.done = TRUE]
    /\ UNCHANGED <<initialized, agents, game_log, turn_idx, monsters, auto_play,
                   waiting_for_human, human_agent_idx, webhook_url, pc, safety, inv,
                   last>>
    /\ UNCHANGED oldVars

\* What the spawn patterns find in "A goblin leaps out.", "Two goblins
\* appear.", "2 goblins and an orc." and "The goblin snarls; the goblin
\* leaps.".
SpawnFinds ==
    { <<[template |-> NGoblin, word |-> <<"A">>]>>,
      <<[template |-> NGoblin, word |-> <<"T","w","o">>]>>,
      <<[template |-> NGoblin, word |-> <<"2">>], [template |-> NOrc, word |-> <<"a","n">>]>>,
      <<[template |-> NGoblin, word |-> <<"t","h","e">>], [template |-> NGoblin, word |-> <<"T","h","e">>]>> }

\* parse_monster_spawns twice over one narration, a monster damaged in
\* between (hurt is the monster's place in the registry, 0 for none).
SpawnCalls ==
    { Call("spawn_twice", [found |-> f, before |-> b, hurt |-> k, damage |-> d]) :
        f \in SpawnFinds,
        b \in {<<>>, parse_monster_spawns(<<[template |-> NGoblin, word |-> <<"a">>]>>, <<>>)},
        k \in 0..2, d \in {3, 99} }

\* Line 205: monsters[ref_name]["hp"] = max(0, hp - dmg).
Hurt(mons, k, d) ==
    IF k \in 1..Len(mons) THEN [mons EXCEPT ![k].hp = Max(0, @ - d)] ELSE mons

CallSpawnTwice ==
    /\ pc = "fn" /\ probe.op = "spawn_twice" /\ ~probe.done
    /\ LET first == parse_monster_spawns(probe.arg.found, probe.arg.before)
           between == Hurt(first, probe.arg.hurt, probe.arg.damage)
       IN  probe' = [probe EXCEPT
                        !.out = [first |-> first, between |-> between,
                                 second |-> parse_monster_spawns(probe.arg.found, between)],
                        !.done = TRUE]
    /\ UNCHANGED <<initialized, agents, game_log, turn_idx, monsters, auto_play,
                   waiting_for_human, human_agent_idx, webhook_url, pc, safety, inv,
                   last>>
    /\ UNCHANGED oldVars

\* "Thorin attacks Goblin. Thorin takes 5 damage.": what attack_pattern
\* finds in it, what the spawn patterns find (nothing), and the cues
\* _parse_stat_changes finds.
AttackAndDamageText ==
    [attacks |-> <<[att |-> NThorin, tgt |-> NGoblin]>>,
     spawns |-> <<>>,
     cues |-> <<Cue(NThorin, "damage", 5)>>]

\* The narration processed by either program with Thorin at 20 HP: by
\* process_ai_turn for the DM with Thorin and a Goblin registered, by
\* run_turn's stat-change pass with Thorin in the party.
NarrationCalls ==
    { Call(op, [text |-> AttackAndDamageText, hp |-> 20]) :
        op \in {"process_ai_turn", "stat_changes"} }

CallProcessAiTurn ==
    /\ pc = "fn" /\ probe.op = "process_ai_turn" /\ ~probe.done
    /\ LET ags == <<DM(FALSE),
                    Agent(NThorin, "PLAYER", Sheet("Fighter", 16, 12, 16, probe.arg.hp),
                          FALSE)>>
           mons == parse_monster_spawns(<<[template |-> NGoblin, word |-> <<"a">>]>>, <<>>)
           text == MkText(probe.arg.text.attacks, probe.arg.text.spawns)
       IN  \E o \in ProcessNarration(ags[1], text, ags, mons) :
              probe' = [probe EXCEPT
                           !.out = [hp |-> o.agents[2].sheet[1].current_hp,
                                    dice_log |-> o.dice_log,
                                    raised |-> o.raised],
                           !.done = TRUE]
    /\ UNCHANGED <<initialized, agents, game_log, turn_idx, monsters, auto_play,
                   waiting_for_human, human_agent_idx, webhook_url, pc, safety, inv,
                   last>>
    /\ UNCHANGED oldVars

CallStatChanges ==
    /\ pc = "fn" /\ probe.op = "stat_changes" /\ ~probe.done
    /\ LET members == <<Member(NThorin, probe.arg.hp), Member(NElara, 3), Member(NKael, 3)>>
           done == apply_stat_changes(probe.arg.text.cues, members, 0)
       IN  probe' = [probe EXCEPT
                        !.out = [hp |-> done.party[1].current_hp,
                                 dice_log |-> <<>>,
                                 raised |-> FALSE],
                        !.done = TRUE]
    /\ UNCHANGED <<initialized, agents, game_log, turn_idx, monsters, auto_play,
                   waiting_for_human, human_agent_idx, webhook_url, pc, safety, inv,
                   last>>
    /\ UNCHANGED oldVars

\* The Initialize Game handler run on a sidebar whose player name fields
\* hold distinct names, the same name twice, or names differing in case.
InitializeCalls ==
    { Call("initialize", s) :
        s \in { <<DM(FALSE), PThorin(FALSE), PElara(FALSE)>>,
                <<DM(FALSE), PThorin(FALSE), PThorin(TRUE)>>,
                <<DM(FALSE), PThorin(FALSE), PThorinAgain(FALSE)>>,
                <<DM(TRUE), PThorin(TRUE), PThorinAgain(TRUE)>> } }

\* Lines 343-361: agents_list is built from the fields as they are; the
\* handler has no branch that reports an error or leaves the game
\* uninitialized. combatants is what the first combat pass would build.
CallInitialize ==
    /\ pc = "fn" /\ probe.op = "initialize" /\ ~probe.done
    /\ probe' = [probe EXCEPT
                    !.out = [agents |-> probe.arg,
                             initialized |-> TRUE,
                             error |-> FALSE,
                             combatants |-> BuildCombatants(probe.arg, <<>>)],
                    !.done = TRUE]
    /\ UNCHANGED <<initialized, agents, game_log, turn_idx, monsters, auto_play,
                   waiting_for_human, human_agent_idx, webhook_url, pc, safety, inv,
                   last>>
    /\ UNCHANGED oldVars

\* The outcome class of one httpx.post: which of the narrator's failures
\* it is, "content" when it carries a narration.
OutcomeClass(resp) ==
    CASE resp.exc # "none" -> resp.exc
      [] resp.status # 200 -> "status"
      [] resp.json = "invalid" -> "nonjson"
      [] resp.json = "empty" -> "empty"
      [] resp.json = "dict" /\ resp.content.t \in {"absent", "falsy"}
                           /\ resp.message.t \in {"absent", "falsy"} -> "nokey"
      [] OTHER -> "content"

\* The responses that are a failure of one of the narrator's classes.
Failures == {r \in Responses : r.json # "list" /\ OutcomeClass(r) # "content"}

\* _send_to_n8n as far as its failures go, with run_turn's reading of the
\* dict it returns (line 241): kind names which text the narration is (one
\* of the three fallbacks, str(result) for a dict with no narration and no
\* message, the value itself for a falsy narration), detail what the text
\* quotes (the status code, str(e)).  json.loads fails on an empty body and
\* on one that is no JSON with the same message.
send_to_n8n(resp) ==
    CASE resp.exc \in {"timeout", "connect"} ->
            [raised |-> FALSE, kind |-> "unreachable", detail |-> resp.exc]
      [] resp.exc = "other" ->
            [raised |-> FALSE, kind |-> "unexpected", detail |-> "other"]
      [] resp.status # 200 ->
            [raised |-> FALSE, kind |-> "http_error", detail |-> "status"]
      [] resp.json \in {"invalid", "empty"} ->
            [raised |-> FALSE, kind |-> "unexpected", detail |-> "Expecting value"]
      [] resp.json = "dict" /\ resp.content.t = "absent" /\ resp.message.t = "absent" ->
            [raised |-> FALSE, kind |-> "repr", detail |-> "dict"]
      [] resp.json = "dict" /\ resp.content.t = "falsy" ->
            [raised |-> FALSE, kind |-> "falsy_value", detail |-> "none"]
      [] OTHER ->
            [raised |-> FALSE, kind |-> "json", detail |-> resp.json]

\* The narrator called by either program, for each failure class.
NarratorCalls ==
    { Call(op, r) : op \in {"call_n8n", "_send_to_n8n"}, r \in Failures }

CallN8n ==
    /\ pc = "fn" /\ probe.op = "call_n8n" /\ ~probe.done
    /\ LET content == call_n8n(probe.arg)
       IN  probe' = [probe EXCEPT
                        !.out = [raised |-> FALSE, is_str |-> content.is_str,
                                 kind |-> content.kind, detail |-> "none"],
                        !.done = TRUE]
    /\ UNCHANGED <<initialized, agents, game_log, turn_idx, monsters, auto_play,
                   waiting_for_human, human_agent_idx, webhook_url, pc, safety, inv,
                   last>>
    /\ UNCHANGED oldVars

CallSendToN8n ==
    /\ pc = "fn" /\ probe.op = "_send_to_n8n" /\ ~probe.done
    /\ LET result == send_to_n8n(probe.arg)
       IN  probe' = [probe EXCEPT
                        !.out = [raised |-> result.raised, is_str |-> TRUE,
                                 kind |-> result.kind, detail |-> result.detail],
                        !.done = TRUE]
    /\ UNCHANGED <<initialized, agents, game_log, turn_idx, monsters, auto_play,
                   waiting_for_human, human_agent_idx, webhook_url, pc, safety, inv,
                   last>>
    /\ UNCHANGED oldVars

\* The registry the name fragments are resolved in: Thorin, and the
\* monsters of "a goblin" and then "two goblins" (Goblin, Goblin 1, Goblin 2).
ResolveRegistry ==
    BuildCombatants(<<DM(FALSE), PThorin(FALSE)>>,
        parse_monster_spawns(<<[template |-> NGoblin, word |-> <<"a">>],
                               [template |-> NGoblin, word |-> <<"t","w","o">>]>>, <<>>))

\* A party of the Auto-Battler.
ResolveParty == <<Member(NThorin, 4), Member(NElara, 3), Member(NKael, 3)>>

\* Fragments the patterns capture, lower-cased as lines 170-171 / 161 do:
\* "thorin", "goblin", "gob", "the goblin", "goblin 2", "dragon", "a",
\* "but kael".
Fragments ==
    { Lower(NThorin), Lower(NGoblin), <<"g","o","b">>, Lower(NTheGoblin),
      Lower(NGoblin) \o <<" ","2">>, <<"d","r","a","g","o","n">>, <<"a">>,
      Lower(NButKael) }

ResolveCalls ==
    { Call(op, f) : op \in {"fuzzy_loop", "name_map"}, f \in Fragments }

\* Lines 173-180 of parse_and_execute_combat for one fragment: the key of
\* the entry the loop leaves, <<>> for None.
CallFuzzyLoop ==
    /\ pc = "fn" /\ probe.op = "fuzzy_loop" /\ ~probe.done
    /\ LET i == FuzzyFind(ResolveRegistry, probe.arg)
       IN  probe' = [probe EXCEPT
                        !.out = IF i = 0 THEN <<>> ELSE ResolveRegistry[i].key,
                        !.done = TRUE]
    /\ UNCHANGED <<initialized, agents, game_log, turn_idx, monsters, auto_play,
                   waiting_for_human, human_agent_idx, webhook_url, pc, safety, inv,
                   last>>
    /\ UNCHANGED oldVars

\* Lines 161-168 of _apply_stat_changes for one target.
CallNameMap ==
    /\ pc = "fn" /\ probe.op = "name_map" /\ ~probe.done
    /\ LET i == FindMember(probe.arg, ResolveParty)
       IN  probe' = [probe EXCEPT
                        !.out = IF i = 0 THEN <<>> ELSE Lower(ResolveParty[i].name),
                        !.done = TRUE]
    /\ UNCHANGED <<initialized, agents, game_log, turn_idx, monsters, auto_play,
                   waiting_for_human, human_agent_idx, webhook_url, pc, safety, inv,
                   last>>
    /\ UNCHANGED oldVars

\* Attack matches of narrations with names that resolve to nobody
\* ("the dragon") or to one combatant on both sides: "The dragon attacks
\* Thorin. Thorin attacks the goblin.", "Thorin strikes the dragon, the goblin
\* attacks Thorin.", "Thorin attacks Thorin. The goblin attacks Thorin.",
\* "The dragon attacks the dragon.", "The goblin attacks the goblin."
NTheDragon == <<"T","h","e"," ","d","r","a","g","o","n">>

CombatFinds ==
    { <<[att |-> NTheDragon, tgt |-> NThorin], [att |-> NThorin, tgt |-> Lower(NTheGoblin)]>>,
      <<[att |-> NThorin, tgt |-> Lower(NTheDragon)], [att |-> Lower(NTheGoblin), tgt |-> NThorin]>>,
      <<[att |-> NThorin, tgt |-> NThorin], [att |-> NTheGoblin, tgt |-> NThorin]>>,
      <<[att |-> NTheDragon, tgt |-> Lower(NTheDragon)]>>,
      <<[att |-> NTheGoblin, tgt |-> Lower(NTheGoblin)]>> }

\* The agents and monsters the attack pass is called with.
CombatAgents == <<DM(FALSE), PThorin(FALSE)>>
CombatMonsters ==
    parse_monster_spawns(<<[template |-> NGoblin, word |-> <<"a">>]>>, <<>>)

CombatCalls == { Call("combat", f) : f \in CombatFinds }

CallCombat ==
    /\ pc = "fn" /\ probe.op = "combat" /\ ~probe.done
    /\ \E o \in parse_and_execute_combat(MkText(probe.arg, <<>>), CombatAgents,
                                         CombatMonsters) :
          probe' = [probe EXCEPT !.out = o, !.done = TRUE]
    /\ UNCHANGED <<initialized, agents, game_log, turn_idx, monsters, auto_play,
                   waiting_for_human, human_agent_idx, webhook_url, pc, safety, inv,
                   last>>
    /\ UNCHANGED oldVars

\* One attack intent between registered combatants: "Thorin attacks the
\* goblin.", "The goblin attacks Thorin.", "Thorin attacks Elara.", "Elara
\* attacks the orc."
AttackFinds ==
    { [att |-> NThorin, tgt |-> Lower(NTheGoblin)],
      [att |-> NTheGoblin, tgt |-> NThorin],
      [att |-> NThorin, tgt |-> NElara],
      [att |-> NElara, tgt |-> <<"t","h","e"," ">> \o Lower(NOrc)] }

\* The agents and monsters the attack is resolved among.
AttackAgents == <<DM(FALSE), PThorin(FALSE), PElara(TRUE)>>
AttackMonsters ==
    parse_monster_spawns(<<[template |-> NGoblin, word |-> <<"a">>],
                           [template |-> NOrc, word |-> <<"a","n">>]>>, <<>>)

AttackCalls == { Call("one_attack", m) : m \in AttackFinds }

\* parse_and_execute_combat on a narration with that one intent.
CallOneAttack ==
    /\ pc = "fn" /\ probe.op = "one_attack" /\ ~probe.done
    /\ \E o \in parse_and_execute_combat(MkText(<<probe.arg>>, <<>>), AttackAgents,
                                         AttackMonsters) :
          probe' = [probe EXCEPT !.out = o, !.done = TRUE]
    /\ UNCHANGED <<initialized, agents, game_log, turn_idx, monsters, auto_play,
                   waiting_for_human, human_agent_idx, webhook_url, pc, safety, inv,
                   last>>
    /\ UNCHANGED oldVars

FnCalls ==
    TakeDamageCalls \cup RollDiceCalls \cup ResolveAttackCalls \cup SpawnCalls
        \cup NarrationCalls \cup InitializeCalls \cup NarratorCalls
        \cup ResolveCalls \cup CombatCalls \cup AttackCalls

\* The session untouched, one call about to be made.
FnInit ==
    /\ initialized = FALSE
    /\ agents = <<>>
    /\ game_log = <<>>
    /\ turn_idx = 0
    /\ monsters = <<>>
    /\ auto_play = FALSE
    /\ waiting_for_human = FALSE
    /\ human_agent_idx = NoneIdx
    /\ webhook_url = FALSE
    /\ pc = "fn"
    /\ safety = 0
    /\ inv = NoInv
    /\ party = <<>>
    /\ history = <<>>
    /\ turn_index = 0
    /\ game_active = FALSE
    /\ last = Event("none", TxtQuiet)
    /\ probe \in FnCalls

FnNext ==
    \/ CallTakeDamage
    \/ CallRollDice
    \/ CallResolveAttack
    \/ CallSpawnTwice
    \/ CallProcessAiTurn
    \/ CallStatChanges
    \/ CallInitialize
    \/ CallN8n
    \/ CallSendToN8n
    \/ CallFuzzyLoop
    \/ CallNameMap
    \/ CallCombat
    \/ CallOneAttack

FnSpec == FnInit /\ [][FnNext]_vars

\* ------------------------------------------------------------- properties

\* is_human of each actor, in turn order
Dispositions == [i \in 1..Len(agents) |-> agents[i].is_human]

\* The entries of a transcript that are an actor's narration.
Narrations(log) == {k \in 1..Len(log) : ~log[k].is_dice}

NarrationsBy(log, i) == {k \in Narrations(log) : log[k].actor = i}

IsPrefix(a, b) == Len(a) <= Len(b) /\ SubSeq(b, 1, Len(a)) = a

\* A step that is not the Initialize Game handler's.
NoReset == last'.ev # "init"

\* C1: with dispositions [autonomous, autonomous, human, autonomous], the
\* pointer at 0 and an endpoint set, the script run of one Play Turn click or
\* auto-play tick in which every narrator answer is processed calls the
\* narrator exactly for actors 0 and 1 and leaves the pointer at 2; when the
\* script thread then comes to rest, the human-wait flag is set and the
\* pending index is 2.
C1_TurnChaining ==
    [][( /\ initialized
         /\ Dispositions = <<FALSE, FALSE, TRUE, FALSE>>
         /\ inv.kind \in {"play", "auto"} /\ inv.start = 0 /\ inv.hook
         /\ inv.done /\ ~inv.crashed
         /\ pc = "rerun" /\ pc' = "idle" /\ UNCHANGED auto_play )
       => /\ inv.calls = <<0, 1>>
          /\ turn_idx' = 2
          /\ waiting_for_human'
          /\ human_agent_idx' = 2]_vars

\* C2: whatever the narrator call returns, the step that takes the machine
\* out of the call appends exactly one narration entry of the acting agent,
\* advances the pointer by exactly 1 and calls the narrator no second time.
C2_EveryOutcomeResolves ==
    [][pc = "calling" =>
         /\ pc' # "calling"
         /\ inv'.calls = inv.calls
         /\ turn_idx' = turn_idx + 1
         /\ Cardinality(Narrations(game_log')) = Cardinality(Narrations(game_log)) + 1
         /\ Cardinality(NarrationsBy(game_log', CurrentIdx))
              = Cardinality(NarrationsBy(game_log, CurrentIdx)) + 1]_vars

\* C3: with no endpoint set, a step of a Play Turn click, of an auto-play
\* tick or of the chain taken on an autonomous actor's turn starts no
\* narrator call and leaves the pointer, the transcript, the monsters, every
\* HP and the human-wait flag as they were; so does the Auto-Battler's
\* run_turn for its party, history, turn index and game-active flag.
C3_NoEndpointNoChange ==
    [][/\ ( /\ initialized /\ ~webhook_url /\ ~webhook_url'
            /\ ~get_current_agent.is_human
            /\ last'.ev = "trigger" )
          => /\ pc' # "calling"
             /\ inv'.calls = <<>> \/ inv'.calls = inv.calls
             /\ UNCHANGED <<turn_idx, game_log, monsters, agents,
                            waiting_for_human, human_agent_idx>>
       /\ ( /\ party # <<>> /\ ~webhook_url'
            /\ last'.ev \in {"old_play", "old_auto", "old_setting"} )
          => UNCHANGED <<party, history, turn_index, game_active>>]_vars

\* C3's case: a Play Turn click or auto-play tick on an autonomous actor's
\* turn has run to its end with no endpoint set.
C3_Witness ==
    /\ initialized /\ ~webhook_url /\ ~get_current_agent.is_human
    /\ inv.kind \in {"play", "auto"} /\ ~inv.hook /\ inv.done
    /\ inv.calls = <<>> /\ inv.start = turn_idx /\ turn_idx > 0

\* C4: while the human-wait flag is set, no step but the pending actor's
\* submission (or a reset) starts a narrator call, moves the pointer, appends
\* to the transcript or clears the flag, auto-play on or off; the submission
\* appends the narration of the pending actor and advances the pointer by 1.
C4_HumanWaitSuspends ==
    [][(waiting_for_human /\ NoReset) =>
         \/ /\ last'.ev # "human"
            /\ pc' # "calling"
            /\ waiting_for_human'
            /\ UNCHANGED <<turn_idx, game_log, agents, monsters, human_agent_idx>>
         \/ /\ last'.ev = "human"
            /\ ~waiting_for_human'
            /\ turn_idx' = turn_idx + 1
            /\ human_agent_idx = turn_idx % Len(agents)
            /\ NarrationsBy(game_log', human_agent_idx)
                 = NarrationsBy(game_log, human_agent_idx) \cup {Len(game_log) + 1}]_vars

\* C4's case: auto-play is on and a script run has come and gone while the
\* machine waits for the human.
C4_Witness ==
    waiting_for_human /\ auto_play /\ pc = "idle" /\ webhook_url /\ turn_idx > 0

C6_HpWithinBounds ==
    /\ \A i \in 1..Len(agents) :
          agents[i].sheet # <<>> =>
              /\ 0 <= agents[i].sheet[1].current_hp
              /\ agents[i].sheet[1].current_hp <= agents[i].sheet[1].max_hp
    /\ \A i \in 1..Len(monsters) :
          0 <= monsters[i].hp /\ monsters[i].hp <= monsters[i].max_hp
    /\ \A i \in 1..Len(party) :
          0 <= party[i].current_hp /\ party[i].current_hp <= party[i].max_hp

\* C6's case: 9 damage was dealt to Elara's 3 HP, 3 to Kael's, and Thorin
\* was healed by 9 with a maximum of 4.
C6_Witness ==
    /\ Len(party) = 3
    /\ party[1].current_hp = party[1].max_hp
    /\ party[2].current_hp = 0
    /\ party[3].current_hp = 0
    /\ \E k \in 1..Len(history) : history[k].role = "SYSTEM"

\* Narration entries come in turn order, and a combat entry follows the
\* narration of its own turn.
TranscriptOrdered ==
    \A k \in 1..Len(game_log) :
        /\ k > 1 => game_log[k - 1].turn <= game_log[k].turn
        /\ game_log[k].is_dice =>
              /\ k > 1
              /\ ~game_log[k - 1].is_dice
              /\ game_log[k - 1].turn = game_log[k].turn
        /\ (~game_log[k].is_dice /\ k > 1) => game_log[k - 1].turn < game_log[k].turn

\* C7: between resets every step leaves the transcript it found as a prefix
\* of the new one (nothing removed, changed or reordered); entries of an
\* earlier turn precede those of a later one, and a turn's combat entry
\* comes right after that turn's narration.
C7_TranscriptAppendOnly ==
    /\ []TranscriptOrdered
    /\ [][NoReset => IsPrefix(game_log, game_log')]_vars

\* C7's case: two turns resolved and a combat entry among their entries.
C7_Witness ==
    /\ Len(game_log) >= 3
    /\ \E k \in 1..Len(game_log) : game_log[k].is_dice
    /\ game_log[Len(game_log)].turn >= 1

\* name, role and disposition of each actor, in turn order
ActorOrder(ags) ==
    [i \in 1..Len(ags) |->
        [name |-> ags[i].name, role |-> ags[i].role, is_human |-> ags[i].is_human]]

\* The Arena's part of C8: between resets the pointer only stays or grows by
\* 1, and grows exactly when one narration is appended; the actor sequence
\* keeps its length and order; every narration is by the actor at (pointer
\* mod length), and so is every narrator call, whatever the actors' HP.
ArenaPointerAndOrder ==
    /\ [][NoReset =>
            /\ turn_idx' \in {turn_idx, turn_idx + 1}
            /\ ActorOrder(agents') = ActorOrder(agents)
            /\ (turn_idx' = turn_idx + 1) <=>
                 (Cardinality(Narrations(game_log'))
                    = Cardinality(Narrations(game_log)) + 1)]_vars
    /\ [](\A k \in Narrations(game_log) :
             /\ game_log[k].actor = game_log[k].turn % Len(agents)
             /\ game_log[k].name = agents[game_log[k].actor + 1].name)
    /\ [](pc = "calling" => inv.calls[Len(inv.calls)] = turn_idx % Len(agents))

\* The turn order the Auto-Battler's party was created with: the DM on even
\* turns, the members in party order on odd ones.
FixedOrder == <<0, 1, 0, 2, 0, 3>>

\* C8: the Arena's part, and for the Auto-Battler: between resets and party
\* generations the turn index only stays or grows by 1, and every narration
\* of its history is by the actor at (turn mod length) of the order fixed at
\* creation, also after a member dropped to 0 HP.
C8_PointerAndOrder ==
    /\ ArenaPointerAndOrder
    /\ [][last'.ev \notin {"old_reset", "old_generate"} =>
            turn_index' \in {turn_index, turn_index + 1}]_vars
    /\ [](\A k \in 1..Len(history) :
             history[k].role # "SYSTEM" =>
                 history[k].sender
                    = FixedOrder[(history[k].turn % Len(FixedOrder)) + 1])

C10_HumanLikeNarrator ==
    [][(waiting_for_human /\ last'.ev = "human") =>
         LET cur == agents[human_agent_idx + 1]
         IN  \E o \in ProcessNarration(cur, last'.text, agents, monsters) :
               /\ ~o.raised
               /\ agents' = o.agents
               /\ \A i \in 1..Len(monsters) : monsters'[i] = o.monsters[i]
               /\ game_log' = AppendDice(
                      append_message(game_log, cur.name, MsgRole(cur), FALSE,
                                     human_agent_idx),
                      o.dice_log)
               /\ turn_idx' = turn_idx + 1]_vars

\* A call of take_damage has returned.
Returned(op) == probe.op = op /\ probe.done

\* C11 as stated: take_damage returns the HP removed, at most h, at most
\* amount, and amount exactly when amount <= h.
C11_ClampedDelta ==
    Returned("take_damage") =>
        /\ probe.out.returned = probe.arg.h - probe.out.hp
        /\ probe.out.returned <= probe.arg.h
        /\ probe.out.returned <= probe.arg.amount
        /\ (probe.out.returned = probe.arg.amount) <=> (probe.arg.amount <= probe.arg.h)

\* C11: with m the magnitude of amount, take_damage leaves max(0, h - m)
\* and returns the HP removed, at most h, at most m, and m exactly when
\* m <= h.
C11_ClampedDeltaOfMagnitude ==
    Returned("take_damage") =>
        LET m == IF probe.arg.amount < 0 THEN 0 - probe.arg.amount ELSE probe.arg.amount
        IN  /\ probe.out.hp = Max(0, probe.arg.h - m)
            /\ probe.out.returned = probe.arg.h - probe.out.hp
            /\ probe.out.returned <= probe.arg.h
            /\ probe.out.returned <= m
            /\ (probe.out.returned = m) <=> (m <= probe.arg.h)

\* C11's case: a call with more damage than the member has HP returned.
C11_Witness ==
    /\ Returned("take_damage")
    /\ probe.arg.h > 0 /\ probe.arg.amount > probe.arg.h

\* C12: roll_dice on NdM with N, M >= 1 returns N values, each in 1..M, and
\* their sum as the total.
C12_RollsOfValidNotation ==
    (Returned("roll_dice") /\ probe.arg.valid) =>
        /\ ~probe.out.raised
        /\ Len(probe.out.rolls) = probe.arg.count
        /\ \A i \in 1..Len(probe.out.rolls) : probe.out.rolls[i] \in 1..probe.arg.sides
        /\ probe.out.total = SumSeq(probe.out.rolls)

\* C12's case: two dice of a valid notation came up with different faces.
C12_Witness ==
    /\ Returned("roll_dice") /\ probe.arg.valid
    /\ probe.arg.count = 2
    /\ probe.out.rolls[1] # probe.out.rolls[2]

\* C13: roll_dice on a notation that is not NdM with N, M >= 1 does not raise
\* and returns the single roll 0 with total 0.
C13_MalformedGivesZeroRoll ==
    (Returned("roll_dice") /\ ~probe.arg.valid) =>
        /\ ~probe.out.raised
        /\ probe.out.rolls = <<0>>
        /\ probe.out.total = 0

\* C14: a d20 of 1 gives fumble, no hit, damage 0 and no damage dice,
\* whatever the modifier and the AC.
C14_NaturalOneFumbles ==
    (Returned("resolve_attack") /\ probe.out.d20 = 1) =>
        /\ ~probe.out.raised
        /\ probe.out.fumble
        /\ ~probe.out.hit
        /\ probe.out.damage = 0
        /\ probe.out.damage_rolls = <<>>

\* C14's case: a 1 was rolled with a modifier that brings the total to the AC.
C14_Witness ==
    /\ Returned("resolve_attack") /\ probe.out.d20 = 1
    /\ probe.out.attack_total >= probe.arg.ac

\* The damage_rolls a d20 of 20 can come with, for the arguments of the call.
CritRolls ==
    { r.damage_rolls :
        r \in { x \in resolve_attack(probe.arg.mod, probe.arg.notation, probe.arg.ac) :
                  x.d20 = 20 } }

\* C15: a d20 of 20 gives a hit and a crit whatever the modifier and the AC;
\* its damage is the sum of 2N dice each in 1..M, and every such 2N dice can
\* come up (the second N are rolled, not copied from the first).
C15_NaturalTwentyRollsTwice ==
    (Returned("resolve_attack") /\ probe.out.d20 = 20) =>
        /\ ~probe.out.raised
        /\ probe.out.hit /\ probe.out.crit
        /\ Len(probe.out.damage_rolls) = 2 * probe.arg.count
        /\ \A i \in 1..Len(probe.out.damage_rolls) :
              probe.out.damage_rolls[i] \in 1..probe.arg.sides
        /\ probe.out.damage = SumSeq(probe.out.damage_rolls)
        /\ CritRolls = [1..(2 * probe.arg.count) -> 1..probe.arg.sides]

\* C15's case: a 20 was rolled with a total below the AC, and the second
\* roll of the damage dice differs from the first.
C15_Witness ==
    /\ Returned("resolve_attack") /\ probe.out.d20 = 20
    /\ probe.out.attack_total < probe.arg.ac
    /\ probe.out.damage_rolls[1] # probe.out.damage_rolls[probe.arg.count + 1]

\* C16: in every result crit and fumble are not both set, crit is set exactly
\* on a d20 of 20 and fumble exactly on 1, crit implies hit and fumble
\* implies no hit.
C16_CritFumbleExclusive ==
    Returned("resolve_attack") =>
        /\ ~(probe.out.crit /\ probe.out.fumble)
        /\ probe.out.crit <=> (probe.out.d20 = 20)
        /\ probe.out.fumble <=> (probe.out.d20 = 1)
        /\ probe.out.crit => probe.out.hit
        /\ probe.out.fumble => ~probe.out.hit

\* C16's case: a 19 that hits and is no crit.
C16_Witness ==
    /\ Returned("resolve_attack")
    /\ probe.out.d20 = 19 /\ probe.out.hit /\ ~probe.out.crit /\ ~probe.out.fumble

\* C17: a second spawn pass over the same narration leaves the registry
\* exactly as it finds it: no monster added, no stats or HP changed, also
\* for a monster damaged or killed after the first pass.
C17_SpawnIdempotent ==
    Returned("spawn_twice") =>
        /\ probe.out.second = probe.out.between
        /\ Len(probe.out.second) = Len(probe.out.first)

\* C17's case: the first pass registered two monsters, one was killed, and
\* the second pass ran.
C17_Witness ==
    /\ Returned("spawn_twice")
    /\ Len(probe.out.first) >= 2 /\ Len(probe.arg.before) = 0
    /\ \E k \in 1..Len(probe.out.between) :
          probe.out.between[k].hp = 0 /\ probe.out.first[k].hp > 0

\* The lines of a dice log that report a resolved attack.
AttackLines(dice_log) ==
    {k \in 1..Len(dice_log) : dice_log[k] \in {"miss", "fumble", "hit", "crit"}}

\* C18: processing "Thorin attacks Goblin. Thorin takes 5 damage." with
\* Thorin at 20 HP gives one resolved-attack line and leaves Thorin at 15.
C18_AttackAndDirectDamage ==
    (probe.done /\ probe.op \in {"process_ai_turn", "stat_changes"}) =>
        /\ ~probe.out.raised
        /\ Cardinality(AttackLines(probe.out.dice_log)) = 1
        /\ probe.out.hp = probe.arg.hp - 5

\* No two agents of the list carry the same name, compared without case.
UniqueNames(ags) ==
    \A i, j \in 1..Len(ags) : Lower(ags[i].name) = Lower(ags[j].name) => i = j

\* C19: the Initialize Game handler either sets up agents whose names are
\* unique case-insensitively, or rejects the set-up and reports an error.
C19_DuplicateNamesRejected ==
    Returned("initialize") =>
        \/ probe.out.initialized /\ UniqueNames(probe.out.agents)
        \/ ~probe.out.initialized /\ probe.out.error

\* The registry (agents and monsters) of `after` holds every combatant of
\* `before` under its name and in its place, and one at 0 HP is still at 0.
RegistryKept(ags, mons, ags2, mons2) ==
    /\ Len(ags2) = Len(ags)
    /\ \A i \in 1..Len(ags) :
          /\ ags2[i].name = ags[i].name
          /\ (ags[i].sheet # <<>> /\ ags[i].sheet[1].current_hp = 0) =>
                ags2[i].sheet[1].current_hp = 0
    /\ Len(mons2) >= Len(mons)
    /\ \A i \in 1..Len(mons) :
          /\ mons2[i].name = mons[i].name
          /\ mons[i].hp = 0 => mons2[i].hp = 0

\* Some combatant of the registry is at 0 HP.
SomeoneDown ==
    \/ \E i \in 1..Len(agents) :
          agents[i].sheet # <<>> /\ agents[i].sheet[1].current_hp = 0
    \/ \E i \in 1..Len(monsters) : monsters[i].hp = 0

\* C20: between resets no step removes a combatant from the registry or
\* raises one from 0 HP, a narration naming it as attacker or target
\* included; and when a turn taken with a combatant at 0 HP ends in an
\* exception, the exception is not the narration's processing: every
\* narration is processed there without one, the registry kept.
C20_FallenStayRegistered ==
    [][NoReset =>
          /\ RegistryKept(agents, monsters, agents', monsters')
          /\ (SomeoneDown /\ inv'.crashed /\ ~inv.crashed) =>
                \A text \in Texts :
                    \A o \in ProcessNarration(get_current_agent, text, agents, monsters) :
                        /\ ~o.raised
                        /\ RegistryKept(agents, monsters, o.agents, o.monsters)]_vars

\* C20's case: Thorin and the Goblin are both at 0 HP and three narrations
\* with an attack between them were processed, so at least one of those
\* named a combatant already at 0.
C20_Witness ==
    /\ Len(agents) = 2
    /\ agents[2].sheet[1].current_hp = 0
    /\ Len(monsters) = 1
    /\ monsters[1].hp = 0
    /\ Cardinality({k \in 1..Len(game_log) : game_log[k].is_dice}) >= 3

\* The fallback text the narrator call of program op gives for a failure.
FallbackOf(op, resp) ==
    IF op = "call_n8n"
    THEN [kind |-> call_n8n(resp).kind, detail |-> "none"]
    ELSE [kind |-> send_to_n8n(resp).kind, detail |-> send_to_n8n(resp).detail]

\* C21: the narrator call answers each failure class without raising, with
\* a fallback string of its own (one of the call's fixed non-empty texts,
\* not the narration's), which no failure of another class shares.
C21_FailuresBecomeDistinctNarration ==
    (probe.done /\ probe.op \in {"call_n8n", "_send_to_n8n"}) =>
        /\ ~probe.out.raised
        /\ probe.out.is_str
        /\ probe.out.kind \notin {"content", "json", "falsy_value"}
        /\ \A r \in Failures :
              OutcomeClass(r) # OutcomeClass(probe.arg) =>
                  FallbackOf(probe.op, r) # [kind |-> probe.out.kind,
                                             detail |-> probe.out.detail]

\* C22: with an endpoint configured no state is terminal.  Arena: a waiting
\* human's submission resolves a turn, a narrator call in flight can
\* resolve one, and otherwise Play Turn or the chain goes on.  Auto-Battler:
\* short of the model's turn bound, Play Next Turn is available and can
\* resolve a turn, the whole party at 0 HP included.
C22_NoTerminalState ==
    /\ (initialized /\ webhook_url /\ turn_idx < MaxTurns /\ pc # "fn") =>
          CASE pc = "calling" -> ENABLED (NarratorReturn /\ turn_idx' = turn_idx + 1)
            [] pc = "chain" -> ENABLED ChainStep
            [] pc = "rerun" -> ENABLED Rerun
            [] waiting_for_human -> ENABLED (HumanSubmit /\ turn_idx' = turn_idx + 1)
            [] OTHER -> ENABLED PlayTurn
    /\ (OldQuiescent /\ party # <<>> /\ webhook_url /\ run_turn(TRUE) # {}) =>
          /\ game_active
          /\ \E o \in run_turn(TRUE) : ~o.crashed /\ o.turn_index = turn_index + 1

\* C23: a reset, from whatever state it is pressed in (a human awaited,
\* auto-play on), leaves the pointer at 0, the transcript and the monster
\* registry empty, the human-wait flag clear with no pending actor index and
\* auto-play off; the Auto-Battler's Reset leaves every key at its default.
C23_ResetReinitialises ==
    [][/\ last'.ev = "init" =>
             /\ turn_idx' = 0
             /\ game_log' = <<>>
             /\ monsters' = <<>>
             /\ ~waiting_for_human'
             /\ human_agent_idx' = NoneIdx
             /\ ~auto_play'
       /\ last'.ev = "old_reset" =>
             /\ turn_index' = 0
             /\ history' = <<>>
             /\ party' = <<>>
             /\ ~game_active'
             /\ ~auto_play']_vars

\* C23's case: the Arena was just reset with the endpoint configured.
C23_Witness ==
    /\ last.ev = "init"
    /\ webhook_url
    /\ turn_idx = 0
    /\ game_log = <<>>
    /\ ~auto_play

\* C24: for a d20 of 2..19 the result reports total = roll + modifier and
\* hit exactly when the total is at least the AC; a miss has damage 0 and no
\* damage dice, a hit has the N dice of one roll of the notation, each in
\* 1..M, and their sum as damage.
C24_OrdinaryRollHitsOnTotal ==
    (Returned("resolve_attack") /\ probe.out.d20 \in 2..19) =>
        /\ ~probe.out.raised
        /\ probe.out.attack_total = probe.out.d20 + probe.arg.mod
        /\ probe.out.hit <=> (probe.out.attack_total >= probe.arg.ac)
        /\ ~probe.out.hit =>
              /\ probe.out.damage = 0
              /\ probe.out.damage_rolls = <<>>
        /\ probe.out.hit =>
              /\ Len(probe.out.damage_rolls) = probe.arg.count
              /\ \A i \in 1..Len(probe.out.damage_rolls) :
                    probe.out.damage_rolls[i] \in 1..probe.arg.sides
              /\ probe.out.damage = SumSeq(probe.out.damage_rolls)

\* C24's case: a 9 with modifier -1 against AC 8, a hit on the AC exactly.
C24_Witness ==
    /\ Returned("resolve_attack") /\ probe.out.d20 \in 2..19
    /\ probe.out.attack_total = probe.arg.ac
    /\ probe.out.hit /\ ~probe.out.crit
    /\ probe.out.damage > 0

\* The names (lower-cased, in registration order) a program resolves in.
RegisteredNames(op) ==
    IF op = "fuzzy_loop"
    THEN [i \in 1..Len(ResolveRegistry) |-> ResolveRegistry[i].key]
    ELSE [i \in 1..Len(ResolveParty) |-> Lower(ResolveParty[i].name)]

\* Resolution as stated: the name equal to the fragment, else the first
\* name containing the fragment or contained in it, else none (<<>>).
FirstRegistered(fragment, names) ==
    LET exact == {i \in 1..Len(names) : names[i] = fragment}
        fuzzy == {i \in 1..Len(names) :
                     Contains(names[i], fragment) \/ Contains(fragment, names[i])}
    IN  IF exact # {} THEN fragment
        ELSE IF fuzzy # {} THEN names[CHOOSE i \in fuzzy : \A j \in fuzzy : i <= j]
        ELSE <<>>

\* C25: a fragment resolves to the combatant of that very name when there
\* is one, otherwise to the first registered combatant whose name contains
\* it or is contained in it, otherwise to none.
C25_ExactThenFirstRegistered ==
    (probe.done /\ probe.op \in {"fuzzy_loop", "name_map"}) =>
        probe.out = FirstRegistered(probe.arg, RegisteredNames(probe.op))

\* The matches of a narration that name a registered attacker and a
\* registered target other than the attacker.
Resolvable(matches, combatants) ==
    SelectSeq(matches,
        LAMBDA m : LET att == FuzzyFind(combatants, Lower(Strip(m.att)))
                       tgt == FuzzyFind(combatants, Lower(Strip(m.tgt)))
                   IN  att # 0 /\ tgt # 0 /\ att # tgt)

\* C26: the attack pass leaves what it would leave had the narration held
\* its resolvable matches only: a match with an unregistered side, or with
\* one combatant on both sides, rolls nothing, changes no HP and writes no
\* line, and the narration's other matches are resolved, one line each.
C26_UnresolvedMatchDropped ==
    Returned("combat") =>
        LET combatants == BuildCombatants(CombatAgents, CombatMonsters)
            kept == Resolvable(probe.arg, combatants)
        IN  /\ ~probe.out.raised
            /\ Cardinality(AttackLines(probe.out.dice_log)) = Len(kept)
            /\ probe.out \in parse_and_execute_combat(MkText(kept, <<>>), CombatAgents,
                                                      CombatMonsters)
            /\ kept = <<>> =>
                  /\ probe.out.agents = CombatAgents
                  /\ probe.out.monsters = CombatMonsters
                  /\ probe.out.dice_log = <<>>

\* C26's case: of two matches the one naming the dragon was dropped and the
\* other was resolved and hit.
C26_Witness ==
    /\ Returned("combat")
    /\ Len(probe.arg) = 2
    /\ probe.arg[1].att = NTheDragon
    /\ Len(probe.out.dice_log) = 2
    /\ probe.out.monsters # CombatMonsters

\* The monsters of the second registry that the first does not hold.
Added(before, after) ==
    {i \in 1..Len(after) : ~HasMonster(before, after[i].name)}

\* The count the spawn pass reads from a match.
CountOf(match) ==
    IF IsDigits(match.word) THEN StrToInt(match.word) ELSE word_to_num(Lower(match.word))

\* C27: a spawn pass over one match of template T with count N adds N new
\* monsters with T's base stats, whatever monsters of T are registered
\* already, and all registered names are distinct afterwards.
C27_SpawnAddsCount ==
    (Returned("spawn_twice") /\ Len(probe.arg.found) = 1) =>
        LET first == probe.out.first
            T == TemplateOf(probe.arg.found[1].template)
        IN  /\ Cardinality(Added(probe.arg.before, first)) = CountOf(probe.arg.found[1])
            /\ \A i \in Added(probe.arg.before, first) :
                  [first[i] EXCEPT !.name = T.name] = T
            /\ \A i, j \in 1..Len(first) : first[i].name = first[j].name => i = j

\* The names in the monster registry.
MonsterNames(mons) == {mons[i].name : i \in 1..Len(mons)}

\* C28: between resets the set of registered monster names changes only on
\* the step that processes the narration of an autonomous Dungeon Master.
C28_OnlyNarratorSpawns ==
    [][(NoReset /\ MonsterNames(monsters') # MonsterNames(monsters)) =>
          /\ pc = "calling"
          /\ get_current_agent.role = "DM"
          /\ ~get_current_agent.is_human]_vars

\* C28's case: a human's submission "A goblin leaps out." was processed and
\* the registry is empty.
C28_Witness ==
    /\ last.ev = "human"
    /\ last.text = TxtSpawnA
    /\ monsters = <<>>
    /\ turn_idx > 0

\* The human-wait flag and the pending actor index agree, and the pending
\* actor is the human whose turn it is.
WaitConsistent(flag, idx, ptr, ags) ==
    /\ flag <=> (idx # NoneIdx)
    /\ flag =>
          /\ idx = ptr % Len(ags)
          /\ ags[idx + 1].is_human

\* C29: in every state the pending index is set exactly when the flag is
\* set, and then is the pointer modulo the number of actors and names a
\* human; a human submission advances the pointer by 1 and clears both.
C29_WaitFlagAndIndex ==
    [][/\ WaitConsistent(waiting_for_human, human_agent_idx, turn_idx, agents)
       /\ WaitConsistent(waiting_for_human', human_agent_idx', turn_idx', agents')
       /\ last'.ev = "human" =>
             /\ waiting_for_human
             /\ turn_idx' = turn_idx + 1
             /\ ~waiting_for_human'
             /\ human_agent_idx' = NoneIdx]_vars

\* C29's case: the human third actor's submission was processed: the
\* pointer went from 2 to 3 and nothing is pending.
C29_Witness ==
    /\ last.ev = "human"
    /\ Len(agents) = 4
    /\ turn_idx = 3
    /\ ~waiting_for_human
    /\ human_agent_idx = NoneIdx

\* C30: a narrator call is in flight only for an autonomous actor, and
\* every call on record was made for one; the chain, finding a human at the
\* pointer, ends there with the pointer where it is; and between resets the
\* pointer moves only on a human's submission or on the narration of an
\* autonomous actor.
C30_NoNarratorForHumans ==
    [][/\ pc' = "calling" => ~agents'[(turn_idx' % Len(agents')) + 1].is_human
       /\ \A k \in 1..Len(inv'.calls) : ~agents'[inv'.calls[k] + 1].is_human
       /\ (pc = "chain" /\ get_current_agent.is_human) =>
             /\ pc' = "rerun"
             /\ turn_idx' = turn_idx
       /\ (NoReset /\ turn_idx' # turn_idx) =>
             \/ last'.ev = "human"
             \/ pc = "calling" /\ ~get_current_agent.is_human]_vars

\* C30's case: Play Turn called the narrator for the Dungeon Master, and the
\* chain ended at the human player after that one turn.
C30_Witness ==
    /\ pc = "rerun"
    /\ inv.kind = "play"
    /\ inv.done
    /\ inv.calls = <<0>>
    /\ inv.steps = 1
    /\ turn_idx = 1
    /\ get_current_agent.is_human

\* The combatants of a registry as one list, players then monsters, each
\* with its lookup key, current and maximum HP and AC.
Roster(ags, mons) ==
    LET players == SelectSeq(ags, LAMBDA a : a.sheet # <<>>)
    IN  [i \in 1..Len(players) |->
            [key |-> Lower(players[i].name), hp |-> players[i].sheet[1].current_hp,
             max_hp |-> players[i].sheet[1].max_hp, ac |-> players[i].sheet[1].armor_class]]
        \o [i \in 1..Len(mons) |->
               [key |-> Lower(mons[i].name), hp |-> mons[i].hp, max_hp |-> mons[i].max_hp,
                ac |-> mons[i].ac]]

\* The place in the roster a fragment resolves to.
RosterFind(roster, fragment) ==
    CHOOSE i \in 1..Len(roster) : Contains(Lower(Strip(fragment)), roster[i].key)

\* C31: one resolved attack changes at most the target's current HP: to
\* max(0, HP - damage) for the damage of a hit the attacker can roll against
\* the target, not at all on a miss or a fumble; the attacker's and every
\* other combatant's HP, all maximum HP and AC, the actor order and the turn
\* pointer stay as they were.
C31_OnlyTargetHpChanges ==
    [][(probe'.op = "one_attack" /\ probe'.done /\ ~probe.done) =>
          LET before == Roster(AttackAgents, AttackMonsters)
              after == Roster(probe'.out.agents, probe'.out.monsters)
              att == RosterFind(before, probe.arg.att)
              tgt == RosterFind(before, probe.arg.tgt)
              combatants == BuildCombatants(AttackAgents, AttackMonsters)
              results == resolve_attack(
                             combatants[FuzzyFind(combatants, before[att].key)].mod,
                             combatants[FuzzyFind(combatants, before[att].key)].damage,
                             before[tgt].ac)
          IN  /\ ~probe'.out.raised
              /\ Len(after) = Len(before)
              /\ \A i \in 1..Len(before) :
                    /\ after[i].key = before[i].key
                    /\ after[i].max_hp = before[i].max_hp
                    /\ after[i].ac = before[i].ac
                    /\ i # tgt => after[i].hp = before[i].hp
              /\ [i \in 1..Len(AttackAgents) |-> probe'.out.agents[i].name]
                    = [i \in 1..Len(AttackAgents) |-> AttackAgents[i].name]
              /\ Len(probe'.out.agents) = Len(AttackAgents)
              /\ \E r \in results :
                    /\ probe'.out.dice_log[1] = r.narrative
                    /\ after[tgt].hp = IF r.hit THEN Max(0, before[tgt].hp - r.damage)
                                       ELSE before[tgt].hp
              /\ probe'.out.dice_log[1] \in {"miss", "fumble"} => after = before
              /\ turn_idx' = turn_idx]_vars

\* C31's case: the goblin's hit on Thorin dealt more than Thorin's 6 HP:
\* Thorin is at 0, Elara and the monsters are as they were.
C31_Witness ==
    /\ Returned("one_attack")
    /\ probe.arg.tgt = NThorin
    /\ probe.out.dice_log[1] = "crit"
    /\ probe.out.agents[2].sheet[1].current_hp = 0
    /\ probe.out.agents[3] = AttackAgents[3]
    /\ probe.out.monsters = AttackMonsters

====
